---- MODULE Spec2Model ----
(***************************************************************************)
(* State-machine model of the calculation engines of the finance suite:    *)
(*   - LoanConfiguration (rate schedule, prepayment plan, validate)        *)
(*   - AdvancedLoanCalculator, v1 (src/v1/js/core/LoanCalculator.js) and   *)
(*     v2 (src/unnamed/part_002): calculate, getBalanceAtMonth             *)
(*   - GoalSeekingSIPCalculator (src/js/core/GoalSeeker.js)                *)
(*                                                                         *)
(* JavaScript Numbers that carry money are modelled as fixed-point         *)
(* integers with Scale units per currency unit; growth factors and         *)
(* monthly rates use FScale units per 1.  Every product/quotient is        *)
(* computed exactly and rounded to nearest once, as one IEEE operation     *)
(* would be.  NaN is a distinguished value that every arithmetic operator  *)
(* propagates and every comparison rejects, as in IEEE-754.                *)
(***************************************************************************)
EXTENDS Integers, Sequences, FiniteSets, TLC

VARIABLES
    ver,                    \* which implementation the calculator object is: "v1" | "v2"
    cfg,                    \* this.config : LoanConfiguration
    amortizationSchedule,   \* this.amortizationSchedule
    currentEMI,             \* this.currentEMI
    pc,                     \* position inside calculate(): "idle" | "orig" | "main"
    loc,                    \* locals of the running calculate()
    result,                 \* what the last finished call returned / threw
    calls,                  \* number of calculate() calls made on the instance
    query,                  \* last pure query (rate lookup / getBalanceAtMonth) and its answer
    goal,                   \* GoalSeekingSIPCalculator: solver position and locals
    sipCalc,                \* AdvancedSIPCalculator: position and locals of calculate()
    withdrawal,             \* WithdrawalCalculator: position and locals of its calls
    tenure                  \* EMICalculator.calculateTenure: its arguments and outcome

vars == <<ver, cfg, amortizationSchedule, currentEMI, pc, loc, result, calls, query, goal,
          sipCalc, withdrawal, tenure>>

----------------------------------------------------------------------------
(* Fixed-point arithmetic *)

Scale  == 10 ^ 4            \* money: 1 currency unit = Scale
FScale == 10 ^ 6            \* factors and monthly rates: 1.0 = FScale
NaN    == 0 - (2 ^ 30)      \* IEEE NaN (Math.log of a negative number)
Null   == 0                 \* JS null for month / year fields (valid months are >= 1)

Abs(x) == IF x < 0 THEN -x ELSE x
Min(a, b) == IF a < b THEN a ELSE b
Max(a, b) == IF a > b THEN a ELSE b

\* the digit base of the long multiplication by d: a power of two for which
\* base * d + base * d stays in the integer range
Radix(d) ==
    IF d < 4000000 THEN 256
    ELSE IF d < 16000000 THEN 64
    ELSE IF d < 64000000 THEN 16
    ELSE IF d < 256000000 THEN 4
    ELSE 2

\* <<q, r>> of radix * (h[1] * d + h[2]) + digit * b by d
QuoRemShift(h, digit, b, d, radix) ==
    <<radix * h[1] + ((radix * h[2] + digit * b) \div d), (radix * h[2] + digit * b) % d>>

\* <<q, r>> with a * b = q * d + r and 0 <= r < d, for a >= 0, 0 <= b < d, digit
\* by digit of a (the product itself may exceed the integer range)
RECURSIVE QuoRem(_, _, _)
QuoRem(a, b, d) ==
    IF a = 0 THEN <<0, 0>>
    ELSE QuoRemShift(QuoRem(a \div Radix(d), b, d), a % Radix(d), b, d, Radix(d))

RoundQuoRem(qr, d) == qr[1] + (IF 2 * qr[2] >= d THEN 1 ELSE 0)

\* a * b / d rounded to nearest, a, b >= 0, d > 0 (exact when d divides a or b)
MulDivPos(a, b, d) ==
    IF b % d = 0 THEN a * (b \div d)
    ELSE IF a % d = 0 THEN (a \div d) * b
    ELSE a * (b \div d) + RoundQuoRem(QuoRem(a, b % d, d), d)

\* a * b / d rounded to nearest (half away from zero), any signs of a, b and d # 0
MulDiv(a, b, d) ==
    (IF ((a < 0) = (b < 0)) = (d > 0) THEN 1 ELSE -1) * MulDivPos(Abs(a), Abs(b), Abs(d))

\* NaN-aware operators: the semantics of +, -, Math.min, Math.max, <, >, <=
NAdd(a, b) == IF a = NaN \/ b = NaN THEN NaN ELSE a + b
NSub(a, b) == IF a = NaN \/ b = NaN THEN NaN ELSE a - b
NMin(a, b) == IF a = NaN \/ b = NaN THEN NaN ELSE Min(a, b)
NMax(a, b) == IF a = NaN \/ b = NaN THEN NaN ELSE Max(a, b)
NLt(a, b)  == a # NaN /\ b # NaN /\ a < b
NGt(a, b)  == a # NaN /\ b # NaN /\ a > b
NLe(a, b)  == a # NaN /\ b # NaN /\ a <= b

\* 0.01 currency unit, the pay-off threshold of every loop
Epsilon == Scale \div 100

\* rate / 100 / 12 as a fixed-point fraction
MonthlyRate(rate) == (rate * FScale) \div 1200

\* x * x for a fixed-point factor x
Square(x) == MulDiv(x, x, FScale)

\* acc * base^n by repeated squaring (a factor of 1.0 or a zero product ends it)
RECURSIVE PowBySquaring(_, _, _)
PowBySquaring(base, n, acc) ==
    IF n = 0 \/ base = FScale \/ acc = 0 THEN acc
    ELSE PowBySquaring(Square(base), n \div 2,
                       IF n % 2 = 1 THEN MulDiv(acc, base, FScale) ELSE acc)

\* Math.pow(1 + r, n) for an integer n >= 0, r a fixed-point fraction
Pow1p(r, n) == PowBySquaring(FScale + r, n, FScale)

----------------------------------------------------------------------------
(* LoanConfiguration *)

\* new LoanConfiguration()
NewConfig ==
    [principal |-> 0, baseTenureMonths |-> 0, interestRateSchedule |-> <<>>,
     monthly |-> <<>>, yearly |-> <<>>, oneTime |-> <<>>,
     defaultStrategy |-> "REDUCE_TENURE"]

InterestRatePeriod(startMonth, rate, endMonth) ==
    [startMonth |-> startMonth, rate |-> rate, endMonth |-> endMonth]

\* InterestRatePeriod.isActiveForMonth / MonthlyPrepayment.isActiveForMonth
IsActiveForMonth(p, month) ==
    month >= p.startMonth /\ (p.endMonth = Null \/ month <= p.endMonth)

\* Array.prototype.sort with (a, b) => a.startMonth - b.startMonth is stable:
\* inserting the pushed (last) element after every element whose start is <= its own
RECURSIVE InsertByStart(_, _)
InsertByStart(s, p) ==
    IF s = <<>> THEN <<p>>
    ELSE IF s[Len(s)].startMonth <= p.startMonth THEN Append(s, p)
    ELSE Append(InsertByStart(SubSeq(s, 1, Len(s) - 1), p), s[Len(s)])

\* the schedule after addRatePeriod(startMonth, rate, endMonth)
AddRatePeriodTo(s, startMonth, rate, endMonth) ==
    InsertByStart(s, InterestRatePeriod(startMonth, rate, endMonth))

\* the for-loop of getInterestRateForMonth from entry k on: every active period
\* overwrites applicableRate (-1 stands for the initial null; rates are >= 0)
RECURSIVE ApplicableRate(_, _, _, _)
ApplicableRate(s, month, k, applicableRate) ==
    IF k > Len(s) THEN applicableRate
    ELSE ApplicableRate(s, month, k + 1,
                        IF IsActiveForMonth(s[k], month) THEN s[k].rate
                        ELSE applicableRate)

\* a lookup that stops at the first matching period instead of the last
GetInterestRateForMonthMutant(s, month) ==
    IF s = <<>> THEN 0
    ELSE IF \E i \in 1..Len(s) : IsActiveForMonth(s[i], month)
         THEN s[CHOOSE i \in 1..Len(s) : IsActiveForMonth(s[i], month)
                     /\ \A j \in 1..(i - 1) : ~IsActiveForMonth(s[j], month)].rate
         ELSE s[1].rate

GetInterestRateForMonth(s, month) ==
    LET applicable == ApplicableRate(s, month, 1, -1)
    IN  IF applicable # -1 THEN applicable
        ELSE IF s = <<>> THEN 0 ELSE s[1].rate

\* a scan that also reports a later period starting inside an open-ended one
RECURSIVE OverlapErrorsMutant(_, _)
OverlapErrorsMutant(s, i) ==
    IF i > Len(s) - 1 THEN <<>>
    ELSE (IF s[i].endMonth = Null \/ s[i + 1].startMonth <= s[i].endMonth
          THEN <<<<"Rate periods have explicit overlap at month", s[i + 1].startMonth>>>>
          ELSE <<>>) \o OverlapErrorsMutant(s, i + 1)

\* the overlap loop of validate() from index i on (adjacent pairs only)
RECURSIVE OverlapErrors(_, _)
OverlapErrors(s, i) ==
    IF i > Len(s) - 1 THEN <<>>
    ELSE (IF s[i].endMonth # Null /\ s[i + 1].startMonth <= s[i].endMonth
          THEN <<<<"Rate periods have explicit overlap at month", s[i + 1].startMonth>>>>
          ELSE <<>>) \o OverlapErrors(s, i + 1)

\* LoanConfiguration.validate(): the list of violation strings, in push order
Validate(c) ==
    (IF c.principal <= 0 THEN <<<<"Principal must be greater than 0", 0>>>> ELSE <<>>)
    \o (IF c.baseTenureMonths <= 0 THEN <<<<"Tenure must be greater than 0", 0>>>> ELSE <<>>)
    \o (IF c.interestRateSchedule = <<>>
        THEN <<<<"At least one interest rate period is required", 0>>>> ELSE <<>>)
    \o OverlapErrors(c.interestRateSchedule, 1)

----------------------------------------------------------------------------
(* Prepayment plan *)

MonthlyPrepayment(amount, startMonth, endMonth, strategy) ==
    [amount |-> amount, startMonth |-> startMonth, endMonth |-> endMonth,
     strategy |-> strategy]

YearlyPrepayment(amount, targetMonth, startYear, endYear, strategy) ==
    [amount |-> amount, targetMonth |-> targetMonth, startYear |-> startYear,
     endYear |-> endYear, strategy |-> strategy]

OneTimePrepayment(amount, month, strategy) ==
    [amount |-> amount, month |-> month, strategy |-> strategy]

\* YearlyPrepayment.isActiveForMonth
YearlyIsActiveForMonth(p, month) ==
    LET yearOfLoan  == (month + 11) \div 12          \* Math.ceil(month / 12)
        monthInYear == ((month - 1) % 12) + 1
    IN  /\ monthInYear = p.targetMonth
        /\ yearOfLoan >= p.startYear
        /\ (p.endYear = Null \/ yearOfLoan <= p.endYear)

\* OneTimePrepayment.isActiveForMonth
OneTimeIsActiveForMonth(p, month) == month = p.month

\* isActiveForMonth of the entry kind a list holds
EntryIsActive(label, prep, month) ==
    CASE label = "monthly" -> IsActiveForMonth(prep, month)
      [] label = "yearly"  -> YearlyIsActiveForMonth(prep, month)
      [] OTHER             -> OneTimeIsActiveForMonth(prep, month)

\* a callback that keeps the amount of the latest active entry only
AddPrepaymentMutant(acc, prep, label) ==
    [amount   |-> prep.amount,
     type     |-> Append(acc.type, label),
     strategy |-> IF prep.strategy # "null" THEN prep.strategy ELSE acc.strategy]

\* the body of one forEach callback of getPrepaymentForMonth for an active entry
AddPrepayment(acc, prep, label) ==
    [amount   |-> acc.amount + prep.amount,
     type     |-> Append(acc.type, label),
     strategy |-> IF prep.strategy # "null" THEN prep.strategy ELSE acc.strategy]

\* one forEach loop of getPrepaymentForMonth: fold the entries of one list, in
\* list order, into the accumulator acc = [amount, type, strategy]
RECURSIVE FoldPrepayments(_, _, _, _, _)
FoldPrepayments(list, k, month, label, acc) ==
    IF k > Len(list) THEN acc
    ELSE FoldPrepayments(list, k + 1, month, label,
             IF EntryIsActive(label, list[k], month)
             THEN AddPrepayment(acc, list[k], label) ELSE acc)

\* the object getPrepaymentForMonth returns for the accumulator of the three loops
PrepaymentInfo(acc) ==
    [amount   |-> acc.amount,
     type     |-> IF Len(acc.type) > 0 THEN acc.type ELSE <<"none">>,
     strategy |-> acc.strategy]

\* getPrepaymentForMonth / _getPrepaymentForMonth; type is the list of joined labels
GetPrepaymentForMonth(c, month) ==
    PrepaymentInfo(
        FoldPrepayments(c.oneTime, 1, month, "lump-sum",
            FoldPrepayments(c.yearly, 1, month, "yearly",
                FoldPrepayments(c.monthly, 1, month, "monthly",
                    [amount |-> 0, type |-> <<>>, strategy |-> "null"]))))

----------------------------------------------------------------------------
(* AdvancedLoanCalculator: closed forms *)

\* (principal * r * factor) / (factor - 1)
AnnuityPayment(principal, r, factor) ==
    MulDiv(MulDiv(principal, r, FScale), factor, factor - FScale)

\* an EMI whose zero-rate case divides by one month too many
CalculateEMIMutant(principal, annualRate, months) ==
    IF principal <= 0 \/ NLe(months, 0) THEN 0
    ELSE IF months = NaN THEN NaN
    ELSE IF MonthlyRate(annualRate) = 0 THEN MulDiv(principal, 1, months + 1)
    ELSE AnnuityPayment(principal, MonthlyRate(annualRate),
                        Pow1p(MonthlyRate(annualRate), months))

\* calculateEMI (v1) / _emi (v2); months may be NaN in v1
CalculateEMI(principal, annualRate, months) ==
    IF principal <= 0 \/ NLe(months, 0) THEN 0
    ELSE IF months = NaN THEN NaN
    ELSE IF MonthlyRate(annualRate) = 0 THEN MulDiv(principal, 1, months)
    ELSE AnnuityPayment(principal, MonthlyRate(annualRate),
                        Pow1p(MonthlyRate(annualRate), months))

\* calculateInitialEMI / _calculateInitialEMI
CalculateInitialEMI(c) ==
    CalculateEMI(c.principal, c.interestRateSchedule[1].rate, c.baseTenureMonths)

\* Math.ceil(Math.log(emi / (emi - interest)) / Math.log(1 + r)) for emi > interest >= 0:
\* the least k with (1 + r)^k * (emi - interest) >= emi, searched from k upwards
\* with factor = (1 + r)^k; cap + 1 when it exceeds cap
RECURSIVE CeilLogRatio(_, _, _, _, _, _)
CeilLogRatio(emi, interest, r, k, cap, factor) ==
    IF k > cap THEN cap + 1
    ELSE IF MulDiv(factor, emi - interest, FScale) >= emi THEN k
    ELSE CeilLogRatio(emi, interest, r, k + 1, cap, MulDiv(factor, FScale + r, FScale))

\* the sanity checks on the month count: below 1 gives 1, above 2 * tenure gives that
ClampMonths(months, baseTenureMonths) ==
    IF months < 1 THEN 1
    ELSE IF months > baseTenureMonths * 2 THEN baseTenureMonths * 2
    ELSE months

\* the r # 0 branch of estimateRemainingMonths, interest = balance * r
EstimateByLog(v, emi, interest, r, baseTenureMonths) ==
    IF v = "v2" /\ emi <= interest THEN baseTenureMonths
    ELSE IF emi < interest THEN NaN                     \* v1: Math.log(negative)
    ELSE IF emi = interest THEN baseTenureMonths * 2    \* v1: Math.log(Infinity)
    ELSE ClampMonths(CeilLogRatio(emi, interest, r, 0, baseTenureMonths * 2, FScale),
                     baseTenureMonths)

\* estimateRemainingMonths (v1) / _estimateRemainingMonths (v2), emi being this.currentEMI
EstimateRemainingMonths(v, balance, annualRate, emi, baseTenureMonths) ==
    IF NLe(balance, 0) \/ NLe(emi, 0) THEN 0
    ELSE IF emi = NaN \/ balance = NaN THEN NaN
    ELSE IF MonthlyRate(annualRate) = 0 THEN (balance + emi - 1) \div emi
    ELSE EstimateByLog(v, emi, MulDiv(balance, MonthlyRate(annualRate), FScale),
                       MonthlyRate(annualRate), baseTenureMonths)

\* roundCurrency: Math.round(val * 100) / 100
RoundCurrency(val) ==
    IF val = NaN THEN NaN
    ELSE ((val + (Scale \div 200)) \div (Scale \div 100)) * (Scale \div 100)

----------------------------------------------------------------------------
(* AdvancedLoanCalculator.calculate(): one iteration of each loop *)

\* interest = balance * monthlyRate
InterestOn(balance, currentRate) == MulDiv(balance, MonthlyRate(currentRate), FScale)

\* if (x < 0) x = 0
ClampNegative(x) == IF NLt(x, 0) THEN 0 ELSE x

\* principal = Math.min(emi - interest, balance); if (principal < 0) principal = 0
ScheduledPrincipal(emi, interest, balance) ==
    ClampNegative(NMin(NSub(emi, interest), balance))

\* body of the while loop of calculateOriginalLoan / _simulateOriginal, given the interest
OriginalBodyWith(emi, balance, interest) ==
    [interest |-> interest,
     balance  |-> balance - ScheduledPrincipal(emi, interest, balance)]

OriginalBody(c, emi, balance, month) ==
    OriginalBodyWith(emi, balance,
        InterestOn(balance, GetInterestRateForMonth(c.interestRateSchedule, month)))

\* if (this.currentEMI < minEMI) this.currentEMI = minEMI
EnsureMinEMI(emi, minEMI) == IF NLt(emi, minEMI) THEN minEMI ELSE emi

\* the REDUCE_EMI recalculation of this.currentEMI for the balance left
RecalculateEMI(v, c, emi, newBalance, currentRate) ==
    IF NGt(newBalance, Epsilon)
    THEN EnsureMinEMI(
             CalculateEMI(newBalance, currentRate,
                 EstimateRemainingMonths(v, newBalance, currentRate, emi,
                                         c.baseTenureMonths)),
             MulDiv(InterestOn(newBalance, currentRate), 101, 100))
    ELSE 0

\* the cap applied to a positive requested prepayment
CapPrepayment(v, amount, balance, principal) ==
    IF v = "v2" THEN ClampNegative(NMin(amount, NSub(balance, principal)))
    ELSE NMin(amount, NSub(balance, principal))

\* a resolution that ignores the overrides
EffectiveStrategyMutant(info, c) == c.defaultStrategy

\* prepaymentInfo.strategy || this.config.defaultStrategy
EffectiveStrategy(info, c) ==
    IF info.strategy # "null" THEN info.strategy ELSE c.defaultStrategy

\* if (principal > balance) principal = balance
ClampToBalance(principal, balance) == IF NGt(principal, balance) THEN balance ELSE principal

\* balance -= principal; v2: if (balance < 0) balance = 0
BalanceAfter(v, balance, principal) ==
    IF v = "v2" THEN ClampNegative(NSub(balance, principal)) ELSE NSub(balance, principal)

\* the end of the iteration, principal2 being the principal before the final clamp
MainBodyEnd(v, balance, interest, scheduled, prepayment, applied, strategy, newEMI, principal2, info, currentRate) ==
    [interest   |-> interest,
     scheduled  |-> scheduled,
     principal  |-> ClampToBalance(principal2, balance),
     prepayment |-> prepayment,
     applied    |-> applied,
     emi        |-> newEMI,
     balance    |-> BalanceAfter(v, balance, ClampToBalance(principal2, balance)),
     rate       |-> currentRate,
     type       |-> info.type,
     strategy   |-> IF NGt(prepayment, 0) THEN strategy ELSE "null"]

\* a block that recalculates the payment under either strategy
MainBodyApplyMutant(v, c, emi, balance, interest, scheduled, prepayment, strategy, info, currentRate) ==
    MainBodyEnd(v, balance, interest, scheduled, prepayment, TRUE, strategy,
        RecalculateEMI(v, c, emi, NSub(balance, NAdd(scheduled, prepayment)), currentRate),
        NAdd(scheduled, prepayment), info, currentRate)

\* the if (prepayment > 0) block, prepayment being the capped amount
MainBodyApply(v, c, emi, balance, interest, scheduled, prepayment, strategy, info, currentRate) ==
    MainBodyEnd(v, balance, interest, scheduled, prepayment, TRUE, strategy,
        IF strategy = "REDUCE_EMI"
        THEN RecalculateEMI(v, c, emi, NSub(balance, NAdd(scheduled, prepayment)),
                            currentRate)
        ELSE emi,
        NAdd(scheduled, prepayment), info, currentRate)

\* the iteration from the prepayment lookup on
MainBodyPrepay(v, c, emi, balance, interest, scheduled, info, currentRate) ==
    IF info.amount > 0
    THEN MainBodyApply(v, c, emi, balance, interest, scheduled,
                       CapPrepayment(v, info.amount, balance, scheduled),
                       EffectiveStrategy(info, c), info, currentRate)
    ELSE MainBodyEnd(v, balance, interest, scheduled, info.amount, FALSE,
                     EffectiveStrategy(info, c), emi, scheduled, info, currentRate)

MainBodyInterest(v, c, emi, balance, month, interest, currentRate) ==
    MainBodyPrepay(v, c, emi, balance, interest,
                   ScheduledPrincipal(emi, interest, balance),
                   GetPrepaymentForMonth(c, month), currentRate)

MainBodyRate(v, c, emi, balance, month, currentRate) ==
    MainBodyInterest(v, c, emi, balance, month, InterestOn(balance, currentRate),
                     currentRate)

\* body of the while loop of calculate(), v = "v1" | "v2": the values of the
\* locals and of this.currentEMI at the end of the iteration for `month`
MainBody(v, c, emi, balance, month) ==
    MainBodyRate(v, c, emi, balance, month,
                 GetInterestRateForMonth(c.interestRateSchedule, month))

\* v2 rounds every currency value of a row and of the result at emission
Emit(v, x) == IF v = "v2" THEN RoundCurrency(x) ELSE x

\* the row pushed on this.amortizationSchedule
LedgerRow(v, month, b) ==
    [month          |-> month,
     balance        |-> Emit(v, NMax(b.balance, 0)),
     interest       |-> Emit(v, b.interest),
     principal      |-> Emit(v, b.principal),
     emi            |-> Emit(v, b.emi),
     prepayment     |-> Emit(v, b.prepayment),
     prepaymentType |-> b.type,
     rate           |-> b.rate,
     strategy       |-> b.strategy]

----------------------------------------------------------------------------
(* AdvancedLoanCalculator.getBalanceAtMonth (v2) *)

\* the local emi after the if (prepayment > 0) block; thisEMI is the field
\* this.currentEMI, which _estimateRemainingMonths reads
BalanceEMI(c, thisEMI, emi, prepayment, strategy, nb, rate) ==
    IF prepayment > 0 /\ strategy = "REDUCE_EMI" /\ nb > Epsilon
    THEN CalculateEMI(nb, rate,
             EstimateRemainingMonths("v2", nb, rate, thisEMI, c.baseTenureMonths))
    ELSE emi

\* the end of the iteration, principal2 being the principal before the final clamp
BalanceBodyEnd(st, interest, principal2, emi) ==
    [balance        |-> ClampNegative(st.balance - ClampToBalance(principal2, st.balance)),
     emi            |-> emi,
     totalInterest  |-> st.totalInterest + interest,
     totalPrincipal |-> st.totalPrincipal + ClampToBalance(principal2, st.balance)]

BalanceBodyApply(c, thisEMI, st, interest, scheduled, prepayment, strategy, rate) ==
    BalanceBodyEnd(st, interest,
        IF prepayment > 0 THEN scheduled + prepayment ELSE scheduled,
        BalanceEMI(c, thisEMI, st.emi, prepayment, strategy,
                   st.balance - (scheduled + prepayment), rate))

BalanceBodyPrepay(c, thisEMI, st, interest, scheduled, info, rate) ==
    BalanceBodyApply(c, thisEMI, st, interest, scheduled,
        ClampNegative(Min(info.amount, st.balance - scheduled)),
        EffectiveStrategy(info, c), rate)

BalanceBodyInterest(c, thisEMI, st, m, interest, rate) ==
    BalanceBodyPrepay(c, thisEMI, st, interest,
        ScheduledPrincipal(st.emi, interest, st.balance),
        GetPrepaymentForMonth(c, m), rate)

BalanceBodyRate(c, thisEMI, st, m, rate) ==
    BalanceBodyInterest(c, thisEMI, st, m, InterestOn(st.balance, rate), rate)

\* body of the for loop; st = [balance, emi, totalInterest, totalPrincipal]
BalanceBody(c, thisEMI, st, m) ==
    BalanceBodyRate(c, thisEMI, st, m, GetInterestRateForMonth(c.interestRateSchedule, m))

\* for (let m = 1; m <= targetMonth && balance > 0.01; m++)
RECURSIVE BalanceLoop(_, _, _, _, _)
BalanceLoop(c, thisEMI, st, m, targetMonth) ==
    IF m <= targetMonth /\ st.balance > Epsilon
    THEN BalanceLoop(c, thisEMI, BalanceBody(c, thisEMI, st, m), m + 1, targetMonth)
    ELSE st

\* the object getBalanceAtMonth returns for the locals st at loop exit
BalanceAnswer(st, targetMonth) ==
    [kind               |-> "ok",
     month              |-> targetMonth,
     balance            |-> RoundCurrency(st.balance),
     totalInterestPaid  |-> RoundCurrency(st.totalInterest),
     totalPrincipalPaid |-> RoundCurrency(st.totalPrincipal)]

Thrown(errors) == [kind |-> "error", errors |-> errors]

\* what getBalanceAtMonth(targetMonth) returns or throws on an instance whose
\* this.currentEMI is thisEMI
GetBalanceAtMonth(c, thisEMI, targetMonth) ==
    IF targetMonth < 1 THEN Thrown(<<<<"Month must be >= 1", 0>>>>)
    ELSE IF Validate(c) # <<>> THEN Thrown(Validate(c))
    ELSE BalanceAnswer(
             BalanceLoop(c, thisEMI,
                 [balance |-> c.principal, emi |-> CalculateInitialEMI(c),
                  totalInterest |-> 0, totalPrincipal |-> 0], 1, targetMonth),
             targetMonth)

----------------------------------------------------------------------------
(* Bounds and input sets of the loan specification *)

MaxTenure     == 3      \* largest baseTenureMonths drawn
MaxCalls      == 2      \* calculate() calls made on one instance
MaxQueryMonth == 2      \* largest targetMonth asked of getBalanceAtMonth

Rates       == {0, 1200}              \* annual %, i.e. 0 and 1.0 per month
Principals  == {0, 1200 * Scale}
Tenures     == 0..MaxTenure
Strategies  == {"REDUCE_TENURE", "REDUCE_EMI"}
Overrides   == Strategies \cup {"null"}
QueryMonths == 0..MaxQueryMonth

\* the schedules a configuration is constructed with: none or one period; a
\* second period is added later by addRatePeriod
FirstPeriods == {InterestRatePeriod(1, r, e) : r \in Rates, e \in {Null, 1, 2}}
LaterPeriods == {InterestRatePeriod(2, r, Null) : r \in Rates}
RateSchedules == {<<>>} \cup {<<a>> : a \in FirstPeriods}

\* prepayment plans: none, one entry of one kind, or one entry of every kind
MonthlyEntries == {MonthlyPrepayment(100 * Scale, 1, Null, s) : s \in Overrides}
YearlyEntries  == {YearlyPrepayment(100 * Scale, 3, 1, Null, "null")}
OneTimeEntries == {OneTimePrepayment(100 * Scale, 1, s) : s \in Overrides}

PrepaymentPlans ==
    {[monthly |-> <<>>, yearly |-> <<>>, oneTime |-> <<>>]}
    \cup {[monthly |-> <<e>>, yearly |-> <<>>, oneTime |-> <<>>] : e \in MonthlyEntries}
    \cup {[monthly |-> <<>>, yearly |-> <<e>>, oneTime |-> <<>>] : e \in YearlyEntries}
    \cup {[monthly |-> <<>>, yearly |-> <<>>, oneTime |-> <<e>>] : e \in OneTimeEntries}
    \cup {[monthly |-> <<MonthlyPrepayment(100 * Scale, 1, Null, "null")>>,
           yearly  |-> <<y>>,
           oneTime |-> <<OneTimePrepayment(100 * Scale, 1, "null")>>] : y \in YearlyEntries}

Configs ==
    {[principal |-> p, baseTenureMonths |-> n, interestRateSchedule |-> rs,
      monthly |-> pl.monthly, yearly |-> pl.yearly, oneTime |-> pl.oneTime,
      defaultStrategy |-> d] :
        p \in Principals, n \in Tenures, rs \in RateSchedules,
        pl \in PrepaymentPlans, d \in Strategies}

----------------------------------------------------------------------------
(* The calculator object as a state machine *)

\* the constructor's fields and the locals of a call not yet started
NoBody ==
    [interest |-> 0, scheduled |-> 0, principal |-> 0, prepayment |-> 0,
     applied |-> FALSE, emi |-> 0, balance |-> 0, rate |-> 0, type |-> <<"none">>,
     strategy |-> "null", balanceBefore |-> 0, emiBefore |-> 0]

IdleLoc ==
    [balance |-> 0, month |-> 0, totalInterestPaid |-> 0, totalPrincipalPaid |-> 0,
     totalPrepaymentMade |-> 0, originalEMI |-> 0,
     oBalance |-> 0, oMonth |-> 0, oTotalInterest |-> 0, last |-> NoBody]

NoResult == [kind |-> "none"]
GoalIdle == [pc |-> "off"]
\* a calculator no object of which exists in the run
Unused == [pc |-> "off"]
OthersUnused == sipCalc = Unused /\ withdrawal = Unused /\ tenure = Unused

\* new AdvancedLoanCalculator(config) for a configuration drawn from Configs
Init ==
    /\ ver \in {"v1", "v2"}
    /\ cfg \in Configs
    /\ amortizationSchedule = <<>>
    /\ currentEMI = 0
    /\ pc = "idle"
    /\ loc = IdleLoc
    /\ result = NoResult
    /\ calls = 0
    /\ query = NoResult
    /\ goal = GoalIdle
    /\ OthersUnused

\* an error that reports only the first violation found
ThrownByCalculateMutant(errors) == Thrown(<<errors[1]>>)

\* the error calculate() throws: validation.errors.join(', ')
ThrownByCalculate(errors) == Thrown(errors)

\* calculate() on an invalid configuration: throws before touching anything
CalculateThrow ==
    /\ pc = "idle" /\ calls < MaxCalls
    /\ Validate(cfg) # <<>>
    /\ calls' = calls + 1
    /\ result' = ThrownByCalculate(Validate(cfg))
    /\ query' = NoResult
    /\ UNCHANGED <<ver, cfg, amortizationSchedule, currentEMI, pc, loc, goal, sipCalc, withdrawal, tenure>>

\* the locals of calculate() when the baseline loop starts
StartLoc(c, emi) ==
    [IdleLoc EXCEPT !.balance = c.principal, !.originalEMI = emi,
                    !.oBalance = c.principal]

\* calculate() on a valid configuration, up to the start of the baseline loop
CalculateBegin ==
    /\ pc = "idle" /\ calls < MaxCalls
    /\ Validate(cfg) = <<>>
    /\ calls' = calls + 1
    /\ currentEMI' = CalculateInitialEMI(cfg)
    /\ loc' = StartLoc(cfg, CalculateInitialEMI(cfg))
    /\ pc' = "orig"
    /\ result' = NoResult
    /\ query' = NoResult
    /\ UNCHANGED <<ver, cfg, amortizationSchedule, goal, sipCalc, withdrawal, tenure>>

\* the baseline loop's cap on simulated periods
OriginalMaxMonths(c) == c.baseTenureMonths * 2

\* while (balance > 0.01 && month < maxMonths) of the baseline loop
OriginalLoopRuns == loc.oBalance > Epsilon /\ loc.oMonth < OriginalMaxMonths(cfg)

OriginalStepLoc(l, b) ==
    [l EXCEPT !.oMonth = l.oMonth + 1,
              !.oTotalInterest = l.oTotalInterest + b.interest,
              !.oBalance = b.balance]

\* one iteration of the baseline loop (calculateOriginalLoan / _simulateOriginal)
OriginalStep ==
    /\ pc = "orig"
    /\ OriginalLoopRuns
    /\ loc' = OriginalStepLoc(loc,
                  OriginalBody(cfg, loc.originalEMI, loc.oBalance, loc.oMonth + 1))
    /\ UNCHANGED <<ver, cfg, amortizationSchedule, currentEMI, pc, result, calls, query, goal, sipCalc, withdrawal, tenure>>

\* the ledger the main loop starts from: v2 resets it, v1 keeps what is there
LedgerAtLoopStart(v, ledger) == IF v = "v2" THEN <<>> ELSE ledger

\* the baseline loop exits and the main loop is about to start
OriginalDone ==
    /\ pc = "orig"
    /\ ~OriginalLoopRuns
    /\ pc' = "main"
    /\ amortizationSchedule' = LedgerAtLoopStart(ver, amortizationSchedule)
    /\ UNCHANGED <<ver, cfg, currentEMI, loc, result, calls, query, goal, sipCalc, withdrawal, tenure>>

\* the main loop's cap on simulated periods
MaxMonths(c) == c.baseTenureMonths * 3

\* while (balance > 0.01 && month < maxMonths) of the main loop
MainLoopRuns == NGt(loc.balance, Epsilon) /\ loc.month < MaxMonths(cfg)

\* the locals after an iteration whose body computed b (totalPrepaymentMade is
\* kept by v2 only; v1 has no such local and never reports it)
MainStepLoc(l, b, emiBefore) ==
    [l EXCEPT
        !.month = l.month + 1,
        !.totalInterestPaid = NAdd(l.totalInterestPaid, b.interest),
        !.totalPrincipalPaid = NAdd(l.totalPrincipalPaid, b.principal),
        !.totalPrepaymentMade = IF b.applied THEN NAdd(l.totalPrepaymentMade, b.prepayment)
                                ELSE l.totalPrepaymentMade,
        !.balance = IF NLe(b.balance, Epsilon) THEN 0 ELSE b.balance,
        !.last = b @@ [balanceBefore |-> l.balance, emiBefore |-> emiBefore]]

MainStepEffect(b) ==
    /\ currentEMI' = b.emi
    /\ amortizationSchedule' =
           Append(amortizationSchedule, LedgerRow(ver, loc.month + 1, b))
    /\ loc' = MainStepLoc(loc, b, currentEMI)

\* one iteration of the main loop of calculate()
MainStep ==
    /\ pc = "main"
    /\ MainLoopRuns
    /\ \E b \in {MainBody(ver, cfg, currentEMI, loc.balance, loc.month + 1)} :
         MainStepEffect(b)
    /\ UNCHANGED <<ver, cfg, pc, result, calls, query, goal, sipCalc, withdrawal, tenure>>

\* the result object calculate() returns
CalculateResult(v, l, ledger, emi) ==
    [kind                  |-> "ok",
     months                |-> l.month,
     totalInterest         |-> Emit(v, l.totalInterestPaid),
     totalPrincipal        |-> Emit(v, l.totalPrincipalPaid),
     totalPayment          |-> Emit(v, NAdd(l.totalPrincipalPaid, l.totalInterestPaid)),
     totalPrepayment       |-> IF v = "v2" THEN Emit(v, l.totalPrepaymentMade) ELSE 0,
     interestSaved         |-> Emit(v, NMax(NSub(l.oTotalInterest, l.totalInterestPaid), 0)),
     tenureReduced         |-> l.oMonth - l.month,
     originalEMI           |-> Emit(v, l.originalEMI),
     finalEMI              |-> Emit(v, emi),
     originalMonths        |-> l.oMonth,
     originalTotalInterest |-> Emit(v, l.oTotalInterest),
     amortizationSchedule  |-> ledger]

\* the main loop exits and calculate() returns
CalculateReturn ==
    /\ pc = "main"
    /\ ~MainLoopRuns
    /\ result' = CalculateResult(ver, loc, amortizationSchedule, currentEMI)
    /\ pc' = "idle"
    /\ UNCHANGED <<ver, cfg, amortizationSchedule, currentEMI, loc, calls, query, goal, sipCalc, withdrawal, tenure>>

\* getBalanceAtMonth(t), a method of the v2 calculator only
BalanceQuery ==
    /\ pc = "idle" /\ ver = "v2"
    /\ \E t \in QueryMonths :
         query' = [kind |-> "balance", targetMonth |-> t,
                   answer |-> GetBalanceAtMonth(cfg, currentEMI, t)]
    /\ UNCHANGED <<ver, cfg, amortizationSchedule, currentEMI, pc, loc, result, calls, goal, sipCalc, withdrawal, tenure>>

\* config.addRatePeriod(2, rate, null) on the calculator's configuration between
\* two calls; what the caller holds from earlier calls belonged to the old schedule
AddLaterPeriod ==
    /\ pc = "idle"
    /\ Len(cfg.interestRateSchedule) = 1
    /\ \E b \in LaterPeriods :
         cfg' = [cfg EXCEPT !.interestRateSchedule =
                     AddRatePeriodTo(cfg.interestRateSchedule, b.startMonth, b.rate,
                                     b.endMonth)]
    /\ result' = NoResult
    /\ query' = NoResult
    /\ UNCHANGED <<ver, amortizationSchedule, currentEMI, pc, loc, calls, goal, sipCalc, withdrawal, tenure>>

Next ==
    \/ AddLaterPeriod
    \/ CalculateThrow
    \/ CalculateBegin
    \/ OriginalStep
    \/ OriginalDone
    \/ MainStep
    \/ CalculateReturn
    \/ BalanceQuery

Spec == Init /\ [][Next]_vars

----------------------------------------------------------------------------
(* Properties of calculate() and getBalanceAtMonth *)

\* half a cent: the most roundCurrency moves one value
HalfCent == Scale \div 200

\* the row pushed by the latest iteration of the main loop
LastRow == amortizationSchedule[Len(amortizationSchedule)]

\* clamp(x, 0, hi) as the claim words the scheduled principal
Clamp(x, lo, hi) == NMax(lo, NMin(x, hi))

\* the configuration has at least one prepayment entry
HasPrepayment(c) == c.monthly # <<>> \/ c.yearly # <<>> \/ c.oneTime # <<>>

\* the sum of field f over rows 1..t of a ledger
RECURSIVE SumRows(_, _, _)
SumRows(ledger, t, f) ==
    IF t = 0 THEN 0 ELSE NAdd(SumRows(ledger, t - 1, f), ledger[t][f])

\* a, b differ by at most slack, neither being NaN
Near(a, b, slack) == NLe(NSub(a, b), slack) /\ NLe(NSub(b, a), slack)

\* C2: in every ledger row the recorded prepayment p satisfies
\* 0 <= p <= (balance before the row) - (scheduled principal of the row), the
\* scheduled principal being clamp(currentEMI - interest, 0, balance); v2 records
\* p rounded to the cent, hence the half cent of slack.
C2_PrepaymentWithinBalance ==
    (pc = "main" /\ loc.month >= 1) =>
        /\ NLe(0, LastRow.prepayment)
        /\ NLe(LastRow.prepayment,
               NAdd(NSub(loc.last.balanceBefore,
                         Clamp(NSub(loc.last.emiBefore, loc.last.interest), 0,
                               loc.last.balanceBefore)),
                    HalfCent))

\* C3: with at least one prepayment entry, calculate() returns
\* months <= originalMonths and totalInterest <= originalTotalInterest.
C3_PrepaymentNeverWorse ==
    (result.kind = "ok" /\ HasPrepayment(cfg)) =>
        /\ result.months <= result.originalMonths
        /\ NLe(result.totalInterest, result.originalTotalInterest)

\* C4: the main loop simulates at most 3 x baseTenureMonths periods, the baseline
\* loop at most 2 x baseTenureMonths, and when calculate() returns with
\* months < 3 x baseTenureMonths the balance after the last ledger row is <= 0.01.
C4_BoundedAndPaidOff ==
    /\ loc.month <= 3 * cfg.baseTenureMonths
    /\ loc.oMonth <= 2 * cfg.baseTenureMonths
    /\ (result.kind = "ok" /\ result.months < 3 * cfg.baseTenureMonths) =>
           /\ result.amortizationSchedule # <<>>
           /\ NLe(result.amortizationSchedule[Len(result.amortizationSchedule)].balance,
                  Epsilon)

\* the violations validate() is specified to find, as a set of messages
ExpectedViolations(c) ==
    {<<"Principal must be greater than 0", 0>> : x \in {1} \cap {IF c.principal <= 0 THEN 1 ELSE 0}}
    \cup {<<"Tenure must be greater than 0", 0>> :
             x \in {1} \cap {IF c.baseTenureMonths <= 0 THEN 1 ELSE 0}}
    \cup {<<"At least one interest rate period is required", 0>> :
             x \in {1} \cap {IF Len(c.interestRateSchedule) = 0 THEN 1 ELSE 0}}
    \cup {<<"Rate periods have explicit overlap at month",
            c.interestRateSchedule[i + 1].startMonth>> :
             i \in {j \in 1..(Len(c.interestRateSchedule) - 1) :
                      /\ c.interestRateSchedule[j].endMonth # Null
                      /\ c.interestRateSchedule[j + 1].startMonth
                             <= c.interestRateSchedule[j].endMonth}}

\* the messages an error lists
Listed(r) == {r.errors[i] : i \in 1..Len(r.errors)}

\* C5: a calculate() call on a configuration with any violation fails before a
\* period is simulated: the error lists every violation, and the ledger and
\* currentEMI (and the position: no loop entered) are as before the call.
C5_InvalidFailsCleanly ==
    [][(calls' = calls + 1 /\ ExpectedViolations(cfg) # {}) =>
          /\ result'.kind = "error"
          /\ Listed(result') = ExpectedViolations(cfg)
          /\ amortizationSchedule' = amortizationSchedule
          /\ currentEMI' = currentEMI
          /\ pc' = "idle"]_vars

\* C5 witness: a call failed on an instance that holds the ledger and the EMI of
\* an earlier, successful call
C5_Witness ==
    /\ result.kind = "error"
    /\ result.errors # <<>>
    /\ amortizationSchedule # <<>>
    /\ currentEMI > 0

\* C6: with a single rate period at 0% and no prepayments the initial payment is
\* P / n (up to cent rounding), the interest of every ledger row is 0 and the
\* total interest returned is 0.
C6_ZeroRate ==
    (/\ result.kind = "ok"
     /\ Len(cfg.interestRateSchedule) = 1
     /\ cfg.interestRateSchedule[1].rate = 0
     /\ ~HasPrepayment(cfg)) =>
        /\ Abs(result.originalEMI * cfg.baseTenureMonths - cfg.principal)
               <= cfg.baseTenureMonths * HalfCent
        /\ \A k \in 1..Len(result.amortizationSchedule) :
               result.amortizationSchedule[k].interest = 0
        /\ result.totalInterest = 0

\* C6 witness: a zero-rate loan without prepayments has been calculated over
\* more than one period
C6_Witness ==
    /\ result.kind = "ok"
    /\ Len(cfg.interestRateSchedule) = 1
    /\ cfg.interestRateSchedule[1].rate = 0
    /\ ~HasPrepayment(cfg)
    /\ result.months >= 2
    /\ result.originalEMI * result.months = cfg.principal

\* C7: the ledger returned by the latest calculate() call has one row per
\* simulated period of that call: its length is the returned months and row k
\* has month k.
C7_LedgerOfThisCall ==
    result.kind = "ok" =>
        /\ Len(result.amortizationSchedule) = result.months
        /\ \A k \in 1..Len(result.amortizationSchedule) :
               result.amortizationSchedule[k].month = k

\* C8: getBalanceAtMonth(t), t >= 1, on a valid configuration answers what it
\* answers as the first operation on a fresh calculator (whose currentEMI is 0),
\* whatever was called on the instance before.
C8_BalanceReproducible ==
    (query.kind = "balance" /\ query.targetMonth >= 1 /\ Validate(cfg) = <<>>) =>
        query.answer = GetBalanceAtMonth(cfg, 0, query.targetMonth)

\* C9: for 1 <= t <= calculate().months, getBalanceAtMonth(t).balance is the
\* balance of ledger row t, and its totalInterestPaid / totalPrincipalPaid are
\* the sums of the interest / principal of rows 1..t (rows are rounded to the
\* cent one by one: half a cent of slack per row and for the answer).
C9_BalanceIsTruncatedRun ==
    (/\ query.kind = "balance" /\ result.kind = "ok"
     /\ query.targetMonth >= 1 /\ query.targetMonth <= result.months
     /\ Len(result.amortizationSchedule) = result.months) =>
        /\ query.answer.balance = result.amortizationSchedule[query.targetMonth].balance
        /\ Near(query.answer.totalInterestPaid,
                SumRows(result.amortizationSchedule, query.targetMonth, "interest"),
                (query.targetMonth + 1) * HalfCent)
        /\ Near(query.answer.totalPrincipalPaid,
                SumRows(result.amortizationSchedule, query.targetMonth, "principal"),
                (query.targetMonth + 1) * HalfCent)

----------------------------------------------------------------------------
(* LoanConfiguration as a state machine: building and reading a rate schedule *)

MaxPeriods   == 3       \* addRatePeriod calls made on one configuration
MaxRateMonth == 13      \* largest month asked of getInterestRateForMonth

RateStarts  == {1, 6}
RateEnds    == {Null, 3, 12}
RateValues  == {5, 8}
RateMonths  == 1..MaxRateMonth

\* new LoanConfiguration(): an empty schedule
InitRate ==
    /\ ver \in {"v1", "v2"}
    /\ cfg = NewConfig
    /\ amortizationSchedule = <<>>
    /\ currentEMI = 0
    /\ pc = "idle"
    /\ loc = IdleLoc
    /\ result = NoResult
    /\ calls = 0
    /\ query = NoResult
    /\ goal = GoalIdle
    /\ OthersUnused

\* config.addRatePeriod(startMonth, rate, endMonth)
AddRatePeriod ==
    /\ Len(cfg.interestRateSchedule) < MaxPeriods
    /\ \E startMonth \in RateStarts, rate \in RateValues, endMonth \in RateEnds :
         cfg' = [cfg EXCEPT !.interestRateSchedule =
                     AddRatePeriodTo(cfg.interestRateSchedule, startMonth, rate, endMonth)]
    /\ query' = NoResult
    /\ UNCHANGED <<ver, amortizationSchedule, currentEMI, pc, loc, result, calls, goal, sipCalc, withdrawal, tenure>>

\* config.getInterestRateForMonth(month)
RateQuery ==
    /\ \E month \in RateMonths :
         query' = [kind |-> "rate", month |-> month,
                   rate |-> GetInterestRateForMonth(cfg.interestRateSchedule, month)]
    /\ UNCHANGED <<ver, cfg, amortizationSchedule, currentEMI, pc, loc, result, calls, goal, sipCalc, withdrawal, tenure>>

\* config.validate()
ValidateQuery ==
    /\ query' = [kind |-> "validate", errors |-> Validate(cfg)]
    /\ UNCHANGED <<ver, cfg, amortizationSchedule, currentEMI, pc, loc, result, calls, goal, sipCalc, withdrawal, tenure>>

NextRate ==
    \/ AddRatePeriod
    \/ RateQuery
    \/ ValidateQuery

SpecRate == InitRate /\ [][NextRate]_vars

\* the indices of the schedule entries whose range contains month m
Containing(s, m) ==
    {i \in 1..Len(s) : s[i].startMonth <= m /\ (s[i].endMonth = Null \/ m <= s[i].endMonth)}

\* the largest element of a non-empty set of indices
Largest(S) == CHOOSE i \in S : \A j \in S : j <= i

\* the schedule of the example: [1, null] @ 5 and [6, 12] @ 8
ExampleSchedule == <<InterestRatePeriod(1, 5, Null), InterestRatePeriod(6, 8, 12)>>

\* the rate the contract of getInterestRateForMonth promises for month m of schedule s
PromisedRate(s, m) ==
    IF Containing(s, m) # {} THEN s[Largest(Containing(s, m))].rate
    ELSE IF s = <<>> THEN 0
    ELSE s[1].rate

\* C1: for any schedule built by addRatePeriod calls and any month m >= 1,
\* getInterestRateForMonth(m) is the rate of the last entry, in start-sorted order,
\* whose range contains m, the first entry's rate if no entry contains m, and 0
\* for an empty schedule; the schedule is sorted by start; and in the example
\* schedule months 1 and 13 resolve to 5 and month 7 to 8.
C1_LastMatchingRate ==
    /\ \A i \in 1..(Len(cfg.interestRateSchedule) - 1) :
         cfg.interestRateSchedule[i].startMonth <= cfg.interestRateSchedule[i + 1].startMonth
    /\ query.kind = "rate" =>
         /\ query.rate = PromisedRate(cfg.interestRateSchedule, query.month)
         /\ cfg.interestRateSchedule = ExampleSchedule =>
              /\ query.month \in {1, 13} => query.rate = 5
              /\ query.month = 7 => query.rate = 8

\* C1 witness: month 7 of the example schedule has been looked up and gave 8
C1_Witness ==
    /\ cfg.interestRateSchedule = ExampleSchedule
    /\ query.kind = "rate" /\ query.month = 7 /\ query.rate = 8

----------------------------------------------------------------------------
(* GoalSeekingSIPCalculator: calculateRequiredSIP without step-up or inflation *)

MaxIterations == 100                \* this.maxIterations
Tolerance     == 100 * Scale        \* this.tolerance
MinSIP        == 100 * Scale        \* the floor of an iterate and of the bisection

\* ((1 + r)^months - 1) / r as a fixed-point factor, r # 0
AnnuityFactor(r, months) == MulDiv(Pow1p(r, months) - FScale, FScale, r)

\* calculateFutureValue / _futureValue
CalculateFutureValue(monthlySIP, years, annualReturn) ==
    IF MonthlyRate(annualReturn) = 0 THEN monthlySIP * (years * 12)
    ELSE MulDiv(MulDiv(monthlySIP, AnnuityFactor(MonthlyRate(annualReturn), years * 12),
                       FScale),
                FScale + MonthlyRate(annualReturn), FScale)

\* the loops of calculateStepUpFutureValue / _stepUpFV from period month on:
\* totalAmount = (totalAmount + currentSIP) * (1 + monthlyReturn) for each period,
\* currentSIP *= (1 + stepUpPercent / 100) after each year but the last
RECURSIVE StepUpFutureValueFrom(_, _, _, _, _, _)
StepUpFutureValueFrom(totalAmount, currentSIP, month, years, annualReturn, stepUpPercent) ==
    IF month > years * 12 THEN totalAmount
    ELSE StepUpFutureValueFrom(
             MulDiv(totalAmount + currentSIP, FScale + MonthlyRate(annualReturn), FScale),
             IF month % 12 = 0 /\ month < years * 12
             THEN MulDiv(currentSIP, 100 + stepUpPercent, 100) ELSE currentSIP,
             month + 1, years, annualReturn, stepUpPercent)

\* calculateStepUpFutureValue / _stepUpFV
CalculateStepUpFutureValue(initialSIP, years, annualReturn, stepUpPercent) ==
    StepUpFutureValueFrom(0, initialSIP, 1, years, annualReturn, stepUpPercent)

\* Math.ceil(requiredSIP / 100) * 100
CeilToHundred(sip) == ((sip + MinSIP - 1) \div MinSIP) * MinSIP

\* the locals of newtonRaphsonMethod at its start
NewtonStart(target, years, annualReturn) ==
    [pc |-> "newton", target |-> target, years |-> years, annualReturn |-> annualReturn,
     sip |-> MulDiv(target, 1, years * 12), iterations |-> 0,
     low |-> 0, high |-> 0, answer |-> NoResult,
     search |-> "regular", stepUpPercent |-> 0, direct |-> FALSE]

\* sip = sip - error / derivative; if (sip < 100) sip = 100
NewtonUpdate(sip, error, derivative) ==
    Max(sip - MulDiv(error, Scale, derivative), MinSIP)

\* one iteration of the Newton loop, fv and fvPlusDelta being the two future values
NewtonIteration(g, fv, fvPlusDelta) ==
    IF Abs(fv - g.target) < Tolerance THEN [g EXCEPT !.pc = "return"]
    ELSE IF Abs(fvPlusDelta - fv) < Scale \div 1000 THEN [g EXCEPT !.pc = "broke"]
    ELSE [g EXCEPT !.sip = NewtonUpdate(g.sip, fv - g.target, fvPlusDelta - fv),
                   !.iterations = g.iterations + 1]

\* what follows the Newton loop: v1 falls back to bisection only when the
\* iterations are used up and otherwise returns the iterate; v2 always falls back
AfterNewton(v, g) ==
    IF v = "v2" \/ g.iterations >= MaxIterations
    THEN [g EXCEPT !.pc = "bisect", !.iterations = 0,
                   !.low = MinSIP, !.high = MulDiv(g.target, 1, 12)]
    ELSE [g EXCEPT !.pc = "return"]

\* while (iterations < maxIterations && high - low > 1) of the bisection
BisectRuns(g) == g.iterations < MaxIterations /\ g.high - g.low > Scale

\* the future value a bisection compares with the target: calculateFutureValue
\* in binarySearchMethod, calculateStepUpFutureValue in calculateStepUpSIP
SearchFutureValue(g, mid) ==
    IF g.search = "stepUp"
    THEN CalculateStepUpFutureValue(mid, g.years, g.annualReturn, g.stepUpPercent)
    ELSE CalculateFutureValue(mid, g.years, g.annualReturn)

\* the locals of binarySearchMethod / calculateStepUpSIP at their start, when the
\* method is called on its own
SearchStart(search, target, years, annualReturn, stepUpPercent) ==
    [pc |-> "bisect", target |-> target, years |-> years, annualReturn |-> annualReturn,
     sip |-> 0, iterations |-> 0,
     low |-> MinSIP, high |-> MulDiv(target, 1, 12), answer |-> NoResult,
     search |-> search, stepUpPercent |-> stepUpPercent, direct |-> TRUE]

\* an iteration that moves no bound towards the other
BisectIterationMutant(g, mid, fv) ==
    IF Abs(fv - g.target) < Tolerance THEN [g EXCEPT !.pc = "return", !.sip = mid]
    ELSE [g EXCEPT !.iterations = g.iterations + 1]

\* one iteration of the bisection, fv being the future value at mid
BisectIteration(g, mid, fv) ==
    IF Abs(fv - g.target) < Tolerance THEN [g EXCEPT !.pc = "return", !.sip = mid]
    ELSE IF fv < g.target THEN [g EXCEPT !.low = mid, !.iterations = g.iterations + 1]
    ELSE [g EXCEPT !.high = mid, !.iterations = g.iterations + 1]

\* the object calculateRequiredSIP returns for the solver's value requiredSIP
RequiredSIPResult(v, g, requiredSIP, achieved) ==
    [kind            |-> "ok",
     success         |-> TRUE,
     requiredSIP     |-> CeilToHundred(requiredSIP),
     targetAmount    |-> g.target,
     achievedAmount  |-> Emit(v, achieved),
     totalInvestment |-> Emit(v, requiredSIP * g.years * 12),
     wealthGain      |-> Emit(v, achieved - requiredSIP * g.years * 12)]

GoalTargets == {600 * Scale, 10000 * Scale, 100000 * Scale}
GoalYears   == {1, 10}
GoalReturns == {0, 12}
\* a return of -100% a month: every future value is 0 and the derivative is flat
GoalLosses  == {-1200}
GoalInputs  ==
    (GoalTargets \X GoalYears \X GoalReturns)
        \cup ({600 * Scale, 10000 * Scale} \X GoalYears \X GoalLosses)
\* the arguments of the searches called on their own: targets with target / 12
\* below, at and above 100
SearchTargets == {600 * Scale, 1200 * Scale, 10000 * Scale}
SearchYears   == {1, 2}
SearchReturns == {0, 12, -1200}
SearchStepUps == {0, 10}

\* new GoalSeekingSIPCalculator()
InitGoal ==
    /\ ver \in {"v1", "v2"}
    /\ cfg = NewConfig
    /\ amortizationSchedule = <<>>
    /\ currentEMI = 0
    /\ pc = "idle"
    /\ loc = IdleLoc
    /\ result = NoResult
    /\ calls = 0
    /\ query = NoResult
    /\ goal = [pc |-> "ready"]
    /\ OthersUnused

\* calculateRequiredSIP(targetAmount, years, annualReturn) is called
GoalCall ==
    /\ goal.pc \in {"ready", "done", "searched"}
    /\ \E input \in GoalInputs : goal' = NewtonStart(input[1], input[2], input[3])
    /\ UNCHANGED <<ver, cfg, amortizationSchedule, currentEMI, pc, loc, result, calls, query, sipCalc, withdrawal, tenure>>

\* one iteration of the Newton loop
NewtonStep ==
    /\ goal.pc = "newton"
    /\ goal.iterations < MaxIterations
    /\ goal' = NewtonIteration(goal,
                   CalculateFutureValue(goal.sip, goal.years, goal.annualReturn),
                   CalculateFutureValue(goal.sip + Scale, goal.years, goal.annualReturn))
    /\ UNCHANGED <<ver, cfg, amortizationSchedule, currentEMI, pc, loc, result, calls, query, sipCalc, withdrawal, tenure>>

\* the Newton loop has ended without returning
NewtonExit ==
    /\ \/ goal.pc = "newton" /\ goal.iterations >= MaxIterations
       \/ goal.pc = "broke"
    /\ goal' = AfterNewton(ver, goal)
    /\ UNCHANGED <<ver, cfg, amortizationSchedule, currentEMI, pc, loc, result, calls, query, sipCalc, withdrawal, tenure>>

\* one iteration of the bisection
BisectStep ==
    /\ goal.pc = "bisect"
    /\ BisectRuns(goal)
    /\ goal' = BisectIteration(goal, (goal.low + goal.high) \div 2,
                   SearchFutureValue(goal, (goal.low + goal.high) \div 2))
    /\ UNCHANGED <<ver, cfg, amortizationSchedule, currentEMI, pc, loc, result, calls, query, sipCalc, withdrawal, tenure>>

\* the bisection ends without meeting the tolerance: return (low + high) / 2
BisectExit ==
    /\ goal.pc = "bisect"
    /\ ~BisectRuns(goal)
    /\ goal' = [goal EXCEPT !.pc = "return", !.sip = (goal.low + goal.high) \div 2]
    /\ UNCHANGED <<ver, cfg, amortizationSchedule, currentEMI, pc, loc, result, calls, query, sipCalc, withdrawal, tenure>>

\* calculateRequiredSIP builds its result from the solver's value
GoalReturn ==
    /\ goal.pc = "return"
    /\ ~goal.direct
    /\ goal' = [goal EXCEPT !.pc = "done",
                   !.answer = RequiredSIPResult(ver, goal, goal.sip,
                       CalculateFutureValue(goal.sip, goal.years, goal.annualReturn))]
    /\ UNCHANGED <<ver, cfg, amortizationSchedule, currentEMI, pc, loc, result, calls, query, sipCalc, withdrawal, tenure>>

\* binarySearchMethod(targetAmount, years, annualReturn) is called
BinarySearchCall ==
    /\ goal.pc \in {"ready", "done", "searched"}
    /\ \E target \in SearchTargets, years \in SearchYears, annualReturn \in SearchReturns :
           goal' = SearchStart("regular", target, years, annualReturn, 0)
    /\ UNCHANGED <<ver, cfg, amortizationSchedule, currentEMI, pc, loc, result, calls, query, sipCalc, withdrawal, tenure>>

\* calculateStepUpSIP(targetAmount, years, annualReturn, stepUpPercent) is called
StepUpSearchCall ==
    /\ goal.pc \in {"ready", "done", "searched"}
    /\ \E target \in SearchTargets, years \in SearchYears, annualReturn \in SearchReturns,
          stepUpPercent \in SearchStepUps :
           goal' = SearchStart("stepUp", target, years, annualReturn, stepUpPercent)
    /\ UNCHANGED <<ver, cfg, amortizationSchedule, currentEMI, pc, loc, result, calls, query, sipCalc, withdrawal, tenure>>

\* a search called on its own hands its value to the caller
SearchReturn ==
    /\ goal.pc = "return"
    /\ goal.direct
    /\ goal' = [goal EXCEPT !.pc = "searched",
                   !.answer = [kind |-> "value", value |-> goal.sip]]
    /\ UNCHANGED <<ver, cfg, amortizationSchedule, currentEMI, pc, loc, result, calls, query, sipCalc, withdrawal, tenure>>

NextGoal ==
    \/ GoalCall
    \/ BinarySearchCall
    \/ StepUpSearchCall
    \/ SearchReturn
    \/ NewtonStep
    \/ NewtonExit
    \/ BisectStep
    \/ BisectExit
    \/ GoalReturn

SpecGoal == InitGoal /\ [][NextGoal]_vars

\* C10: the requiredSIP that calculateRequiredSIP(T, y, r) reports has a closed-form
\* future value within 100 currency units of T, or the result is flagged as
\* not converged (the only flag a result carries is success).
C10_WithinToleranceOrFlagged ==
    goal.pc = "done" =>
        \/ Abs(CalculateFutureValue(goal.answer.requiredSIP, goal.years, goal.annualReturn)
               - goal.target) < Tolerance
        \/ goal.answer.success = FALSE

\* the Newton loop has stopped without meeting the tolerance
NewtonStopped ==
    \/ goal.pc = "broke"
    \/ goal.pc = "newton" /\ goal.iterations >= MaxIterations

\* C11: whenever the Newton loop stops without meeting the tolerance (flat
\* derivative, or all iterations used), the solver goes on to the bisection over
\* [100, target / 12], and the value then returned is the bisection's; the
\* unconverged iterate is never what is returned.
C11_FallbackToBisection ==
    [][/\ NewtonStopped =>
              /\ goal'.pc = "bisect"
              /\ goal'.low = MinSIP
              /\ goal'.high = MulDiv(goal.target, 1, 12)
       /\ (goal.pc = "bisect" /\ goal'.pc = "return") =>
              goal'.sip = (goal.low + goal.high) \div 2]_vars

\* target / 12, the upper end of the interval the searches start from
SearchCeiling(g) == MulDiv(g.target, 1, 12)

\* b is half of a, to the resolution of the arithmetic
HalfOf(a, b) == 2 * b - a \in -1..1

\* C25: a bisection (binarySearchMethod, calculateStepUpSIP) runs an iteration
\* only while fewer than 100 have run; when target / 12 >= 100 it keeps
\* 100 <= low <= high <= target / 12, every iteration that does not return halves
\* high - low, and the value returned lies in [100, target / 12]; a step of a
\* bisection leads to a further iteration or to its return, also when the
\* tolerance is not met, and what it hands back is a value, never an error.
C25_BisectionBounded ==
    /\ [](goal.pc = "bisect" =>
             /\ goal.iterations <= MaxIterations
             /\ SearchCeiling(goal) >= MinSIP =>
                    /\ MinSIP <= goal.low
                    /\ goal.low <= goal.high
                    /\ goal.high <= SearchCeiling(goal))
    /\ [](goal.pc = "searched" => goal.answer.kind = "value")
    /\ [][goal.pc = "bisect" =>
             /\ goal'.pc \in {"bisect", "return"}
             /\ goal'.pc = "bisect" =>
                    /\ goal.iterations < MaxIterations
                    /\ goal'.iterations = goal.iterations + 1
                    /\ HalfOf(goal.high - goal.low, goal'.high - goal'.low)
             /\ (goal'.pc = "return" /\ SearchCeiling(goal) >= MinSIP) =>
                    /\ MinSIP <= goal'.sip
                    /\ goal'.sip <= SearchCeiling(goal)]_vars

\* C25 witness: calculateStepUpSIP, called with target / 12 >= 100 and a step-up,
\* has returned after iterations that raised low and iterations that lowered high
C25_Witness ==
    /\ goal.pc = "searched"
    /\ goal.search = "stepUp" /\ goal.stepUpPercent > 0
    /\ SearchCeiling(goal) >= MinSIP
    /\ goal.iterations >= 3
    /\ goal.low > MinSIP /\ goal.high < SearchCeiling(goal)
    /\ goal.answer.value >= goal.low /\ goal.answer.value <= goal.high

----------------------------------------------------------------------------
(* AdvancedSIPCalculator.calculate(): the month-by-month accumulation.
   effectiveReturn, a fractional power of the result, is not represented. *)

ReturnPeriod(startYear, endYear, annualReturn) ==
    [startYear |-> startYear, endYear |-> endYear, annualReturn |-> annualReturn]

StepUpSchedule(startYear, endYear, stepUpPercent) ==
    [startYear |-> startYear, endYear |-> endYear, stepUpPercent |-> stepUpPercent]

\* ReturnPeriod.isActiveForYear, and the same test on a step-up schedule
IsActiveForYear(p, year) ==
    year >= p.startYear /\ (p.endYear = Null \/ year <= p.endYear)

\* ReturnScenario.getReturnForYear: the first active period's return, else the
\* first period's, else 0
RECURSIVE GetReturnForYearFrom(_, _, _)
GetReturnForYearFrom(periods, k, year) ==
    IF k > Len(periods)
    THEN (IF periods = <<>> THEN 0 ELSE periods[1].annualReturn)
    ELSE IF IsActiveForYear(periods[k], year) THEN periods[k].annualReturn
    ELSE GetReturnForYearFrom(periods, k + 1, year)

GetReturnForYear(periods, year) == GetReturnForYearFrom(periods, 1, year)

\* applySteUpSchedule / _applyStepUp: the first schedule covering the year applies
RECURSIVE ApplyStepUpFrom(_, _, _, _)
ApplyStepUpFrom(schedules, k, currentSIP, year) ==
    IF k > Len(schedules) THEN currentSIP
    ELSE IF IsActiveForYear(schedules[k], year)
         THEN MulDiv(currentSIP, 100 + schedules[k].stepUpPercent, 100)
    ELSE ApplyStepUpFrom(schedules, k + 1, currentSIP, year)

\* a step-up in which the last schedule covering the year applies
ApplyStepUpMutant(schedules, currentSIP, year) ==
    IF \E k \in 1..Len(schedules) : IsActiveForYear(schedules[k], year)
    THEN MulDiv(currentSIP,
                100 + schedules[CHOOSE k \in 1..Len(schedules) :
                                    /\ IsActiveForYear(schedules[k], year)
                                    /\ \A j \in (k + 1)..Len(schedules) :
                                           ~IsActiveForYear(schedules[j], year)].stepUpPercent,
                100)
    ELSE currentSIP

ApplyStepUp(schedules, currentSIP, year) == ApplyStepUpFrom(schedules, 1, currentSIP, year)

\* (1 + rate / 100) as a fixed-point factor
YearlyFactor(rate) == FScale + (rate * FScale) \div 100

\* balance / Math.pow(1 + inflationRate / 100 / 12, month) when inflationRate > 0
InflationAdjusted(balance, inflationRate, month) ==
    IF inflationRate > 0
    THEN MulDiv(balance, FScale, Pow1p(MonthlyRate(inflationRate), month))
    ELSE balance

\* balance / Math.pow(1 + inflationRate / 100, durationYears) when inflationRate > 0
RealValue(balance, inflationRate, durationYears) ==
    IF inflationRate > 0
    THEN MulDiv(balance, FScale, PowBySquaring(YearlyFactor(inflationRate), durationYears, FScale))
    ELSE balance

\* balance = (balance + currentSIP) * (1 + monthlyReturn)
GrowMutant(balance, currentSIP, returnRate) ==
    MulDiv(balance, FScale + MonthlyRate(returnRate), FScale) + currentSIP

Grow(balance, currentSIP, returnRate) ==
    MulDiv(balance + currentSIP, FScale + MonthlyRate(returnRate), FScale)

\* the row pushed on this.schedule
SIPRow(v, c, month, year, currentSIP, balance, totalInvested, returnRate) ==
    [month             |-> month,
     year              |-> year,
     sipAmount         |-> Emit(v, currentSIP),
     balance           |-> Emit(v, balance),
     inflationAdjusted |-> Emit(v, InflationAdjusted(balance, c.inflationRate, month)),
     totalInvested     |-> Emit(v, totalInvested),
     returnRate        |-> returnRate]

\* if (month % 6 === 0 || month === 1 || month === months)
Sampled(month, months) == month % 6 = 0 \/ month = 1 \/ month = months

MaxSIPYears == 2            \* largest durationYears drawn

SIPAmounts    == {100 * Scale, 1000 * Scale}
SIPYears      == 1..MaxSIPYears
SIPInflations == {0, 6}
SIPStepUps ==
    {<<>>, <<StepUpSchedule(2, Null, 10)>>,
     <<StepUpSchedule(2, 2, 10), StepUpSchedule(1, Null, 50)>>,
     <<StepUpSchedule(3, Null, 10), StepUpSchedule(2, Null, 50)>>,
     <<StepUpSchedule(1, 1, 10)>>}
\* the periods of the scenario asked for; "missing" when the name is not configured
SIPScenarios  ==
    {"missing", <<>>, <<ReturnPeriod(1, Null, 0)>>, <<ReturnPeriod(1, Null, 12)>>,
     <<ReturnPeriod(1, 1, 12), ReturnPeriod(2, Null, 6)>>}
SIPConfigs ==
    [monthlyAmount : SIPAmounts, durationYears : SIPYears, inflationRate : SIPInflations,
     stepUpSchedules : SIPStepUps, scenario : SIPScenarios]

\* new AdvancedSIPCalculator(config)
InitSIP ==
    /\ ver \in {"v1", "v2"}
    /\ cfg = NewConfig
    /\ amortizationSchedule = <<>>
    /\ currentEMI = 0
    /\ pc = "idle"
    /\ loc = IdleLoc
    /\ result = NoResult
    /\ calls = 0
    /\ query = NoResult
    /\ goal = GoalIdle
    /\ sipCalc \in [pc : {"idle"}, config : SIPConfigs, schedule : {<<>>}, answer : {NoResult}]
    /\ withdrawal = Unused
    /\ tenure = Unused

\* calculate(scenarioName) for a name that is not configured
SIPThrow ==
    /\ sipCalc.pc \in {"idle", "done"}
    /\ sipCalc.config.scenario = "missing"
    /\ sipCalc' = [pc |-> "done", config |-> sipCalc.config, schedule |-> sipCalc.schedule,
                   answer |-> Thrown(<<<<"Return scenario not found", 0>>>>)]
    /\ UNCHANGED <<ver, cfg, amortizationSchedule, currentEMI, pc, loc, result, calls, query,
                   goal, withdrawal, tenure>>

\* calculate() up to the loop
SIPBegin ==
    /\ sipCalc.pc \in {"idle", "done"}
    /\ sipCalc.config.scenario # "missing"
    /\ sipCalc' = [pc |-> "loop", config |-> sipCalc.config, schedule |-> <<>>,
                   answer |-> NoResult, balance |-> 0, totalInvested |-> 0,
                   currentSIP |-> sipCalc.config.monthlyAmount,
                   months |-> sipCalc.config.durationYears * 12, month |-> 0]
    /\ UNCHANGED <<ver, cfg, amortizationSchedule, currentEMI, pc, loc, result, calls, query,
                   goal, withdrawal, tenure>>

\* one iteration of for (month = 1; month <= months; month++)
SIPStep ==
    /\ sipCalc.pc = "loop"
    /\ sipCalc.month < sipCalc.months
    /\ \E month \in {sipCalc.month + 1} :
       \E year \in {(month + 11) \div 12} :
       \E currentSIP \in {IF month > 1 /\ (month - 1) % 12 = 0
                          THEN ApplyStepUp(sipCalc.config.stepUpSchedules,
                                           sipCalc.currentSIP, year)
                          ELSE sipCalc.currentSIP} :
       \E returnRate \in {GetReturnForYear(sipCalc.config.scenario, year)} :
       \E balance \in {Grow(sipCalc.balance, currentSIP, returnRate)} :
           sipCalc' = [sipCalc EXCEPT
               !.month = month,
               !.currentSIP = currentSIP,
               !.totalInvested = @ + currentSIP,
               !.balance = balance,
               !.schedule = IF Sampled(month, sipCalc.months)
                            THEN Append(@, SIPRow(ver, sipCalc.config, month, year,
                                                  currentSIP, balance,
                                                  sipCalc.totalInvested + currentSIP,
                                                  returnRate))
                            ELSE @]
    /\ UNCHANGED <<ver, cfg, amortizationSchedule, currentEMI, pc, loc, result, calls, query,
                   goal, withdrawal, tenure>>

\* the object calculate() returns
SIPResult(v, c, balance, totalInvested, schedule) ==
    [kind          |-> "ok",
     success       |-> TRUE,
     finalValue    |-> Emit(v, balance),
     totalInvested |-> Emit(v, totalInvested),
     wealthGain    |-> Emit(v, balance - totalInvested),
     realValue     |-> Emit(v, RealValue(balance, c.inflationRate, c.durationYears)),
     schedule      |-> schedule]

\* the loop is over: calculate() returns
SIPReturn ==
    /\ sipCalc.pc = "loop"
    /\ sipCalc.month >= sipCalc.months
    /\ sipCalc' = [pc |-> "done", config |-> sipCalc.config, schedule |-> sipCalc.schedule,
                   answer |-> SIPResult(ver, sipCalc.config, sipCalc.balance,
                                        sipCalc.totalInvested, sipCalc.schedule)]
    /\ UNCHANGED <<ver, cfg, amortizationSchedule, currentEMI, pc, loc, result, calls, query,
                   goal, withdrawal, tenure>>

NextSIP ==
    \/ SIPThrow
    \/ SIPBegin
    \/ SIPStep
    \/ SIPReturn

SpecSIP == InitSIP /\ [][NextSIP]_vars

\* the result of a finished calculate() with one unbounded return period and no step-up
FlatRun ==
    /\ sipCalc.pc = "done"
    /\ sipCalc.answer.kind = "ok"
    /\ sipCalc.config.stepUpSchedules = <<>>
    /\ Len(sipCalc.config.scenario) = 1

\* the resolution of the six-digit fixed-point factors on an invested total:
\* one part in 100000, plus the half cent of v2's rounding
Resolution(invested) == invested \div 100000 + HalfCent

\* C12: with a flat return rate and no step-up, the finalValue of calculate() after
\* n = years * 12 iterations of balance = (balance + c) * (1 + r) is the closed form
\* c * ((1 + r)^n - 1) / r * (1 + r) of the goal seeker (c * n when r = 0), to the
\* resolution of the arithmetic.
C12_IterationMatchesClosedForm ==
    FlatRun =>
        Near(sipCalc.answer.finalValue,
             CalculateFutureValue(sipCalc.config.monthlyAmount, sipCalc.config.durationYears,
                                  sipCalc.config.scenario[1].annualReturn),
             Resolution(sipCalc.config.monthlyAmount * sipCalc.config.durationYears * 12))

\* C12 witness: a flat 12% run over more than one year has returned a grown value
C12_Witness ==
    /\ FlatRun
    /\ sipCalc.config.scenario[1].annualReturn = 12
    /\ sipCalc.config.durationYears >= 2
    /\ sipCalc.answer.finalValue > sipCalc.answer.totalInvested

----------------------------------------------------------------------------
(* WithdrawalCalculator: calculate() month by month, and the bisection of
   calculateRequiredCorpus() around it. Amounts are in cents. *)

WScale == 100               \* withdrawal amounts: 1 currency unit = WScale

\* currentWithdrawal *= (1 + inflationRate / 100), at the first month of a later year
AdjustWithdrawal(plan, month, currentWithdrawal) ==
    IF plan.inflationAdjusted /\ month > 1 /\ (month - 1) % 12 = 0
    THEN MulDiv(currentWithdrawal, 100 + plan.inflationRate, 100)
    ELSE currentWithdrawal

\* if (balance > 0) balance *= (1 + monthlyReturn)
GrowCorpus(balance, annualReturn) ==
    IF balance > 0 THEN MulDiv(balance, FScale + MonthlyRate(annualReturn), FScale)
    ELSE balance

\* the row pushed on this.schedule (v2 rounds to the cent, the unit of these amounts)
WithdrawalRow(month, balance, currentWithdrawal, totalWithdrawn) ==
    [month |-> month, year |-> (month + 11) \div 12, balance |-> Max(balance, 0),
     withdrawal |-> currentWithdrawal, totalWithdrawn |-> totalWithdrawn]

\* let balance = initialCorpus, with what an earlier call left added to it
InitialBalanceMutant(initialCorpus, w) == initialCorpus + w.balance

\* let balance = initialCorpus
InitialBalance(initialCorpus, w) == initialCorpus

\* the locals of calculate(initialCorpus, ...plan) at the start of its loop
WithdrawalStart(w, initialCorpus, caller) ==
    [w EXCEPT !.pc = "loop", !.caller = caller, !.initialCorpus = initialCorpus,
              !.balance = InitialBalance(initialCorpus, w), !.totalWithdrawn = 0,
              !.currentWithdrawal = w.plan.monthlyWithdrawal, !.month = 0,
              !.depletedAt = Null, !.schedule = <<>>]

\* the iteration for `month` once currentWithdrawal is adjusted
WithdrawalPay(w, month, currentWithdrawal, balance) ==
    [w EXCEPT !.month = month,
              !.currentWithdrawal = currentWithdrawal,
              !.balance = balance,
              !.totalWithdrawn = @ + currentWithdrawal,
              !.schedule = IF month % 6 = 0 \/ month = 1 \/ balance <= 0
                           THEN Append(@, WithdrawalRow(month, balance, currentWithdrawal,
                                                        w.totalWithdrawn + currentWithdrawal))
                           ELSE @,
              !.depletedAt = IF balance <= 0 THEN month ELSE Null]

\* the object calculate() returns
WithdrawalResult(w) ==
    [kind |-> "ok", success |-> TRUE, initialCorpus |-> w.initialCorpus,
     monthlyWithdrawal |-> w.plan.monthlyWithdrawal, totalWithdrawn |-> w.totalWithdrawn,
     remainingCorpus |-> Max(w.balance, 0), depletedAt |-> w.depletedAt,
     lastsThroughPlan |-> w.depletedAt = Null, schedule |-> w.schedule]

\* Math.ceil(high / 100000) * 100000
CeilToLakh(high) ==
    ((high + 100000 * WScale - 1) \div (100000 * WScale)) * (100000 * WScale)

MaxWithdrawalYears == 2     \* largest years drawn

WithdrawalPlans ==
    [monthlyWithdrawal : {100000 * WScale}, years : 1..MaxWithdrawalYears,
     annualReturn : {0, 12}, inflationRate : {0, 10}, inflationAdjusted : BOOLEAN]
Corpora == {0, 500000 * WScale, 1200000 * WScale, 2200000 * WScale, 2500000 * WScale}

\* new WithdrawalCalculator(), with the plan its calls will be made for
InitWithdrawal ==
    /\ ver \in {"v1", "v2"}
    /\ cfg = NewConfig
    /\ amortizationSchedule = <<>>
    /\ currentEMI = 0
    /\ pc = "idle"
    /\ loc = IdleLoc
    /\ result = NoResult
    /\ calls = 0
    /\ query = NoResult
    /\ goal = GoalIdle
    /\ sipCalc = Unused
    /\ withdrawal \in
           [pc : {"idle"}, plan : WithdrawalPlans, caller : {"user"}, initialCorpus : {0},
            balance : {0}, totalWithdrawn : {0}, currentWithdrawal : {0}, month : {0},
            depletedAt : {Null}, schedule : {<<>>}, answer : {NoResult},
            low : {0}, high : {0}, iterations : {0}, required : {Null}, history : {{}}]
    /\ tenure = Unused

\* calculate(initialCorpus, ...plan) is called by the user, for a corpus not yet tried
WithdrawalCall ==
    /\ withdrawal.pc = "idle"
    /\ \E initialCorpus \in Corpora \cup ({withdrawal.required} \ {Null}) :
         /\ \A h \in withdrawal.history : h[1] # initialCorpus
         /\ withdrawal' = WithdrawalStart(withdrawal, initialCorpus, "user")
    /\ UNCHANGED <<ver, cfg, amortizationSchedule, currentEMI, pc, loc, result, calls, query,
                   goal, sipCalc, tenure>>

\* an iteration that pays out what is left when the balance falls short
WithdrawalStepMutant ==
    /\ withdrawal.pc = "loop"
    /\ withdrawal.depletedAt = Null
    /\ withdrawal.month < withdrawal.plan.years * 12
    /\ \E month \in {withdrawal.month + 1} :
       \E currentWithdrawal \in {AdjustWithdrawal(withdrawal.plan, month,
                                                  withdrawal.currentWithdrawal)} :
           IF withdrawal.balance < currentWithdrawal
           THEN withdrawal' = [withdrawal EXCEPT !.month = month,
                                  !.currentWithdrawal = currentWithdrawal,
                                  !.totalWithdrawn = @ + withdrawal.balance,
                                  !.balance = 0,
                                  !.depletedAt = month]
           ELSE \E balance \in {GrowCorpus(withdrawal.balance - currentWithdrawal,
                                           withdrawal.plan.annualReturn)} :
                    withdrawal' = WithdrawalPay(withdrawal, month, currentWithdrawal, balance)
    /\ UNCHANGED <<ver, cfg, amortizationSchedule, currentEMI, pc, loc, result, calls, query,
                   goal, sipCalc, tenure>>

\* one iteration of for (month = 1; month <= months; month++)
WithdrawalStep ==
    /\ withdrawal.pc = "loop"
    /\ withdrawal.depletedAt = Null
    /\ withdrawal.month < withdrawal.plan.years * 12
    /\ \E month \in {withdrawal.month + 1} :
       \E currentWithdrawal \in {AdjustWithdrawal(withdrawal.plan, month,
                                                  withdrawal.currentWithdrawal)} :
           IF withdrawal.balance < currentWithdrawal
           THEN withdrawal' = [withdrawal EXCEPT !.month = month,
                                  !.currentWithdrawal = currentWithdrawal,
                                  !.depletedAt = month]
           ELSE \E balance \in {GrowCorpus(withdrawal.balance - currentWithdrawal,
                                           withdrawal.plan.annualReturn)} :
                    withdrawal' = WithdrawalPay(withdrawal, month, currentWithdrawal, balance)
    /\ UNCHANGED <<ver, cfg, amortizationSchedule, currentEMI, pc, loc, result, calls, query,
                   goal, sipCalc, tenure>>

\* the loop of a user's calculate() is over: it returns
WithdrawalReturn ==
    /\ withdrawal.pc = "loop"
    /\ withdrawal.caller = "user"
    /\ withdrawal.depletedAt # Null \/ withdrawal.month >= withdrawal.plan.years * 12
    /\ withdrawal' = [withdrawal EXCEPT
           !.pc = "idle",
           !.answer = WithdrawalResult(withdrawal),
           !.history = @ \cup {<<withdrawal.initialCorpus, withdrawal.depletedAt>>}]
    /\ UNCHANGED <<ver, cfg, amortizationSchedule, currentEMI, pc, loc, result, calls, query,
                   goal, sipCalc, tenure>>

\* calculateRequiredCorpus(...plan) is called, once, before any calculate()
CorpusBegin ==
    /\ withdrawal.pc = "idle"
    /\ withdrawal.required = Null
    /\ withdrawal.history = {}
    /\ withdrawal' = [withdrawal EXCEPT
           !.pc = "search",
           !.low = withdrawal.plan.monthlyWithdrawal * withdrawal.plan.years * 12,
           !.high = withdrawal.plan.monthlyWithdrawal * withdrawal.plan.years * 12 * 3,
           !.iterations = 0]
    /\ UNCHANGED <<ver, cfg, amortizationSchedule, currentEMI, pc, loc, result, calls, query,
                   goal, sipCalc, tenure>>

\* while (iterations < maxIterations && high - low > 1000)
CorpusSearchRuns(w) == w.iterations < MaxIterations /\ w.high - w.low > 1000 * WScale

\* an iteration of the search starts: this.calculate(mid, ...plan)
CorpusProbe ==
    /\ withdrawal.pc = "search"
    /\ CorpusSearchRuns(withdrawal)
    /\ withdrawal' = WithdrawalStart(withdrawal, (withdrawal.low + withdrawal.high) \div 2,
                                     "search")
    /\ UNCHANGED <<ver, cfg, amortizationSchedule, currentEMI, pc, loc, result, calls, query,
                   goal, sipCalc, tenure>>

\* the probe has returned: the iteration of the search ends
CorpusNarrow ==
    /\ withdrawal.pc = "loop"
    /\ withdrawal.caller = "search"
    /\ withdrawal.depletedAt # Null \/ withdrawal.month >= withdrawal.plan.years * 12
    /\ withdrawal' = [withdrawal EXCEPT
           !.pc = "search",
           !.answer = WithdrawalResult(withdrawal),
           !.high = IF withdrawal.depletedAt = Null THEN withdrawal.initialCorpus ELSE @,
           !.low = IF withdrawal.depletedAt = Null THEN @ ELSE withdrawal.initialCorpus,
           !.iterations = @ + 1]
    /\ UNCHANGED <<ver, cfg, amortizationSchedule, currentEMI, pc, loc, result, calls, query,
                   goal, sipCalc, tenure>>

\* the search is over: calculateRequiredCorpus returns
CorpusReturn ==
    /\ withdrawal.pc = "search"
    /\ ~CorpusSearchRuns(withdrawal)
    /\ withdrawal' = [withdrawal EXCEPT !.pc = "idle", !.caller = "user",
                                        !.required = CeilToLakh(withdrawal.high)]
    /\ UNCHANGED <<ver, cfg, amortizationSchedule, currentEMI, pc, loc, result, calls, query,
                   goal, sipCalc, tenure>>

NextWithdrawal ==
    \/ WithdrawalCall
    \/ WithdrawalStep
    \/ WithdrawalReturn
    \/ CorpusBegin
    \/ CorpusProbe
    \/ CorpusNarrow
    \/ CorpusReturn

SpecWithdrawal == InitWithdrawal /\ [][NextWithdrawal]_vars

\* C13: for one plan and any two corpora c1 <= c2 tried with calculate(): if c2
\* depletes at d2 then c1 depletes at some d1 <= d2, and if c1 never depletes then
\* c2 never depletes either.
C13_DepletionMonotonicInCorpus ==
    \A h1, h2 \in withdrawal.history :
        h1[1] <= h2[1] =>
            /\ h2[2] # Null => (h1[2] # Null /\ h1[2] <= h2[2])
            /\ h1[2] = Null => h2[2] = Null

\* C13 witness: of three corpora tried, the smallest depleted first, a larger one
\* later, and a yet larger one lasted the plan
C13_Witness ==
    \E h1, h2, h3 \in withdrawal.history :
        /\ h1[1] < h2[1] /\ h2[1] < h3[1]
        /\ h1[2] # Null /\ h2[2] # Null /\ h1[2] < h2[2]
        /\ h3[2] = Null

\* the margin of the claim: 100,000 of rounding and 1,000 of search interval
CorpusMargin == 101000 * WScale

\* C14: the corpus calculateRequiredCorpus returns survives the plan, and no corpus
\* more than 101,000 below it survives the plan.
C14_RequiredCorpusIsMinimal ==
    withdrawal.required # Null =>
        \A h \in withdrawal.history :
            /\ h[1] = withdrawal.required => h[2] = Null
            /\ h[1] < withdrawal.required - CorpusMargin => h[2] # Null

----------------------------------------------------------------------------
(* EMICalculator.calculateTenure (v2) *)

Infinity == 2 ^ 30          \* IEEE Infinity (Math.log(0) is -Infinity)

\* a * b / d rounded down, a, b >= 0, d > 0
MulDivDown(a, b, d) == a * (b \div d) + QuoRem(a, b % d, d)[1]

\* (principal * r) / emi for 0 < principal * r < emi, to the resolution of a
\* fixed-point fraction: below 1 as in IEEE arithmetic, and so small a quotient
\* that 1 - quotient rounds to 1 is 0 here
InterestShare(interestOnly, emi) == MulDivDown(interestOnly, FScale, emi)

\* the least k >= from with (1 + r)^k * rest >= 1, factor being (1 + r)^from * rest
RECURSIVE CeilLogInverse(_, _, _)
CeilLogInverse(factor, r, from) ==
    IF factor >= FScale THEN from
    ELSE CeilLogInverse(MulDiv(factor, FScale + r, FScale), r, from + 1)

\* Math.ceil(-Math.log(1 - share) / Math.log(1 + r)), share a fraction in [0, 1]
TenureByLog(share, r) ==
    IF share = FScale THEN Infinity ELSE CeilLogInverse(FScale - share, r, 0)

\* the object calculateTenure returns
TenureResult(months, totalPayment, totalInterest) ==
    [kind          |-> "ok",
     tenureMonths  |-> months,
     totalPayment  |-> totalPayment,
     totalInterest |-> totalInterest]

\* the annualRate === 0 branch
TenureAtZeroRate(principal, emi, months) ==
    TenureResult(months, RoundCurrency(emi * months), RoundCurrency(emi * months - principal))

\* the end of calculateTenure for a positive rate
TenureAtRate(principal, emi, months) ==
    TenureResult(months, RoundCurrency(emi * months),
                 RoundCurrency(RoundCurrency(emi * months) - principal))

\* EMICalculator.calculateTenure(principal, emi, annualRate)
CalculateTenure(principal, emi, annualRate) ==
    IF principal <= 0 THEN Thrown(<<<<"Principal must be positive", 0>>>>)
    ELSE IF emi <= 0 THEN Thrown(<<<<"EMI must be positive", 0>>>>)
    ELSE IF annualRate < 0 THEN Thrown(<<<<"Rate cannot be negative", 0>>>>)
    ELSE IF annualRate = 0
         THEN TenureAtZeroRate(principal, emi, (principal + emi - 1) \div emi)
    ELSE IF emi <= MulDiv(principal, MonthlyRate(annualRate), FScale)
         THEN Thrown(<<<<"EMI is too low to repay the loan at this rate", 0>>>>)
    ELSE TenureAtRate(principal, emi,
             TenureByLog(InterestShare(MulDiv(principal, MonthlyRate(annualRate), FScale),
                                       emi),
                         MonthlyRate(annualRate)))

\* principals 0, 0.02, 100 and 1200; the monthly interest at 600% and 1200% a year
\* is half of, or all of, the principal
TenurePrincipals == {0, 200, 100 * Scale, 1200 * Scale}
TenureRates      == {-1, 0, 600, 1200}
TenureEMIs       ==
    {0, 100, 200, 50 * Scale, 60 * Scale, 100 * Scale, 101 * Scale, 600 * Scale,
     1200 * Scale, 1300 * Scale, 100000 * Scale}

\* new EMICalculator()
InitTenure ==
    /\ ver = "v2"
    /\ cfg = NewConfig
    /\ amortizationSchedule = <<>>
    /\ currentEMI = 0
    /\ pc = "idle"
    /\ loc = IdleLoc
    /\ result = NoResult
    /\ calls = 0
    /\ query = NoResult
    /\ goal = GoalIdle
    /\ sipCalc = Unused
    /\ withdrawal = Unused
    /\ tenure = [pc |-> "ready"]

\* calculateTenure(principal, emi, annualRate) is called and returns or throws
TenureCall ==
    /\ tenure.pc \in {"ready", "done"}
    /\ \E principal \in TenurePrincipals, emi \in TenureEMIs, annualRate \in TenureRates :
         tenure' = [pc |-> "done", principal |-> principal, emi |-> emi,
                    annualRate |-> annualRate,
                    answer |-> CalculateTenure(principal, emi, annualRate)]
    /\ UNCHANGED <<ver, cfg, amortizationSchedule, currentEMI, pc, loc, result, calls, query,
                   goal, sipCalc, withdrawal>>

NextTenure == TenureCall

SpecTenure == InitTenure /\ [][NextTenure]_vars

\* the message of the named failure of calculateTenure
TooLow == <<"EMI is too low to repay the loan at this rate", 0>>

\* C15: for principal > 0, emi > 0 and annualRate > 0, calculateTenure raises the
\* 'EMI is too low' failure exactly when emi <= principal * annualRate / 1200, and
\* in every other case returns a finite tenure of at least 1 month.
C15_TenureOrNamedFailure ==
    (tenure.pc = "done" /\ tenure.principal > 0 /\ tenure.emi > 0 /\ tenure.annualRate > 0) =>
        IF tenure.emi <= MulDiv(tenure.principal, tenure.annualRate, 1200)
        THEN tenure.answer.kind = "error" /\ tenure.answer.errors = <<TooLow>>
        ELSE /\ tenure.answer.kind = "ok"
             /\ tenure.answer.tenureMonths >= 1
             /\ tenure.answer.tenureMonths < Infinity

----------------------------------------------------------------------------
(* getPrepaymentForMonth on prepayment plans of several entries *)

MaxPrepayMonth == 14        \* largest period looked up (year 2 starts at 13)

\* the lists of at most two entries of S, in insertion order
UpToTwo(S) == {<<>>} \cup {<<a>> : a \in S} \cup {<<a, b>> : a \in S, b \in S}

PlanMonthly ==
    {MonthlyPrepayment(100 * Scale, 1, Null, s) : s \in Overrides}
    \cup {MonthlyPrepayment(200 * Scale, 2, 2, s) : s \in Overrides}
PlanYearly ==
    {YearlyPrepayment(1000 * Scale, 2, 1, 1, s) : s \in Overrides}
    \cup {YearlyPrepayment(3000 * Scale, 2, 2, Null, s) : s \in Overrides}
PlanOneTime ==
    {OneTimePrepayment(5000 * Scale, 2, s) : s \in Overrides}
    \cup {OneTimePrepayment(7000 * Scale, 14, s) : s \in Overrides}

\* configurations built with addMonthlyPrepayment / addYearlyPrepayment /
\* addOneTimePrepayment and a default strategy
PlanConfigs ==
    {[NewConfig EXCEPT !.monthly = m, !.yearly = y, !.oneTime = o, !.defaultStrategy = d] :
        m \in UpToTwo(PlanMonthly), y \in {<<>>} \cup {<<a>> : a \in PlanYearly},
        o \in {<<>>} \cup {<<a>> : a \in PlanOneTime}, d \in Strategies}

\* new AdvancedLoanCalculator(config) for a configuration drawn from PlanConfigs
InitPlan ==
    /\ ver \in {"v1", "v2"}
    /\ cfg \in PlanConfigs
    /\ amortizationSchedule = <<>>
    /\ currentEMI = 0
    /\ pc = "idle"
    /\ loc = IdleLoc
    /\ result = NoResult
    /\ calls = 0
    /\ query = NoResult
    /\ goal = GoalIdle
    /\ OthersUnused

\* what calculate() holds after the lookup for `month`: prepaymentInfo and strategy
PrepaymentFor(c, month, info) ==
    [kind |-> "prepayment", month |-> month, info |-> info,
     strategy |-> EffectiveStrategy(info, c)]

\* the lookup calculate() makes for one period
PrepaymentLookup ==
    /\ pc = "idle"
    /\ \E month \in 1..MaxPrepayMonth :
         query' = PrepaymentFor(cfg, month, GetPrepaymentForMonth(cfg, month))
    /\ UNCHANGED <<ver, cfg, amortizationSchedule, currentEMI, pc, loc, result, calls, goal,
                   sipCalc, withdrawal, tenure>>

NextPlan == PrepaymentLookup

SpecPlan == InitPlan /\ [][NextPlan]_vars

\* the entries of a plan in the order monthly, yearly, one-time, each with its kind
Tagged(list, kind) == [i \in 1..Len(list) |-> [kind |-> kind, entry |-> list[i]]]
Entries(c) ==
    Tagged(c.monthly, "monthly") \o Tagged(c.yearly, "yearly") \o Tagged(c.oneTime, "lump-sum")

\* the activation rule of each kind of entry at period p
ActiveAt(t, p) ==
    CASE t.kind = "monthly" ->
           /\ t.entry.startMonth <= p
           /\ (t.entry.endMonth = Null \/ p <= t.entry.endMonth)
      [] t.kind = "yearly" ->
           /\ ((p - 1) % 12) + 1 = t.entry.targetMonth
           /\ t.entry.startYear <= (p + 11) \div 12
           /\ (t.entry.endYear = Null \/ (p + 11) \div 12 <= t.entry.endYear)
      [] OTHER -> t.entry.month = p

\* the positions of the entries active at p, and of those that carry an override
ActiveEntries(c, p) == {i \in 1..Len(Entries(c)) : ActiveAt(Entries(c)[i], p)}
Overriders(c, p) == {i \in ActiveEntries(c, p) : Entries(c)[i].entry.strategy # "null"}

\* the largest member of a non-empty set of positions
Last(S) == CHOOSE i \in S : \A j \in S : j <= i

\* C16: the strategy used for a period with a positive prepayment is the override
\* of the last active entry that carries one (monthly, then yearly, then one-time
\* entries, each list in insertion order), and the defaultStrategy when no active
\* entry carries one; entries not active in the period have no influence.
C16_LastActiveOverride ==
    (query.kind = "prepayment" /\ query.info.amount > 0) =>
        query.strategy =
            IF Overriders(cfg, query.month) = {} THEN cfg.defaultStrategy
            ELSE Entries(cfg)[Last(Overriders(cfg, query.month))].entry.strategy

\* a period with two active entries of different overrides, the later one against
\* the default, and an inactive entry carrying an override as well
C16_Witness ==
    /\ query.kind = "prepayment" /\ query.info.amount > 0
    /\ Cardinality(Overriders(cfg, query.month)) >= 2
    /\ \E i \in Overriders(cfg, query.month) :
         Entries(cfg)[i].entry.strategy = cfg.defaultStrategy
    /\ \E i \in 1..Len(Entries(cfg)) :
         /\ i \notin ActiveEntries(cfg, query.month)
         /\ Entries(cfg)[i].entry.strategy = cfg.defaultStrategy
    /\ query.strategy # cfg.defaultStrategy

\* the sum of the amounts, and the kinds, of the entries at positions k.. active at p
RECURSIVE AmountFrom(_, _, _)
AmountFrom(es, p, k) ==
    IF k > Len(es) THEN 0
    ELSE (IF ActiveAt(es[k], p) THEN es[k].entry.amount ELSE 0) + AmountFrom(es, p, k + 1)

RECURSIVE KindsFrom(_, _, _)
KindsFrom(es, p, k) ==
    IF k > Len(es) THEN <<>>
    ELSE (IF ActiveAt(es[k], p) THEN <<es[k].kind>> ELSE <<>>) \o KindsFrom(es, p, k + 1)

\* C17: the amount getPrepaymentForMonth(p) requests is the sum of the amounts of
\* exactly the entries active at p, its type has one kind label per contributing
\* entry, and the type is 'none' when no entry is active.
C17_SumOfActiveEntries ==
    query.kind = "prepayment" =>
        /\ query.info.amount = AmountFrom(Entries(cfg), query.month, 1)
        /\ query.info.type = IF ActiveEntries(cfg, query.month) = {} THEN <<"none">>
                             ELSE KindsFrom(Entries(cfg), query.month, 1)

\* a period in year 2 with an entry of every kind contributing and one entry of
\* the plan not active
C17_Witness ==
    /\ query.kind = "prepayment" /\ query.month = 14
    /\ Cardinality(ActiveEntries(cfg, query.month)) = 3
    /\ Len(Entries(cfg)) = 4
    /\ query.info.type = <<"monthly", "yearly", "lump-sum">>
    /\ query.info.amount = 10100 * Scale

----------------------------------------------------------------------------
(* The payment under the two prepayment strategies *)

\* the rows the call in progress, or the call that returned last, has pushed
ThisCallRows ==
    SubSeq(amortizationSchedule, Len(amortizationSchedule) - loc.month + 1,
           Len(amortizationSchedule))

\* the strategy the prepayment requested for period m resolves to, "null" when
\* nothing is requested
ResolvedStrategy(c, m) ==
    IF GetPrepaymentForMonth(c, m).amount > 0
    THEN EffectiveStrategy(GetPrepaymentForMonth(c, m), c) ELSE "null"

\* no prepayment of the periods simulated so far resolved to REDUCE_EMI
OnlyReduceTenure == \A m \in 1..loc.month : ResolvedStrategy(cfg, m) # "REDUCE_EMI"

\* C18: in a simulation in which every applied prepayment resolves to
\* REDUCE_TENURE, currentEMI keeps its initial value through every period: every
\* row of the simulation records originalEMI as its emi, and the result's finalEMI
\* equals its originalEMI.
C18_TenureStrategyKeepsEMI ==
    (pc \in {"main", "idle"} /\ OnlyReduceTenure) =>
        /\ currentEMI = loc.originalEMI
        /\ \A i \in 1..Len(ThisCallRows) : ThisCallRows[i].emi = Emit(ver, loc.originalEMI)
        /\ result.kind = "ok" => result.finalEMI = result.originalEMI

\* a returned simulation of two periods or more at a positive rate in which a
\* prepayment was applied under REDUCE_TENURE
C18_Witness ==
    /\ result.kind = "ok" /\ OnlyReduceTenure
    /\ result.months >= 2
    /\ result.finalEMI > 0
    /\ \E i \in 1..Len(ThisCallRows) :
         /\ ThisCallRows[i].strategy = "REDUCE_TENURE"
         /\ ThisCallRows[i].prepayment > 0
         /\ ThisCallRows[i].rate > 0

\* the latest period applied a positive prepayment under REDUCE_EMI
ReducedEMI ==
    /\ pc \in {"main", "idle"} /\ loc.month >= 1
    /\ loc.last.strategy = "REDUCE_EMI"
    /\ NGt(loc.last.prepayment, 0)

\* C19: after a period that applies a positive prepayment under REDUCE_EMI, if the
\* balance left exceeds 0.01 the new currentEMI is a number of at least
\* 1.01 x balance left x monthly rate of the period, and otherwise it is 0, also
\* when the payment in force before was at or below the interest due.
C19_NewEMICoversInterest ==
    ReducedEMI =>
        IF NGt(loc.last.balance, Epsilon)
        THEN /\ currentEMI # NaN
             /\ currentEMI >= MulDiv(InterestOn(loc.last.balance, loc.last.rate), 101, 100)
        ELSE currentEMI = 0

\* C20: in every period that applies a positive prepayment under REDUCE_EMI the
\* recomputed currentEMI is not greater than the currentEMI in force before the
\* period, whatever the rate schedule.
C20_PrepaymentNeverRaisesEMI ==
    ReducedEMI => ~NGt(currentEMI, loc.last.emiBefore)

----------------------------------------------------------------------------
(* The balance and the principal across the ledger of one simulation *)

\* the balance left after the periods simulated so far, before the loop's exit
\* sets a balance of at most 0.01 to 0
Outstanding == IF loc.month = 0 THEN loc.balance ELSE loc.last.balance

\* C26: across the rows of a calculate() run the balance is a number >= 0 and
\* never above the balance of the row before (for the first row, the principal),
\* for any rate schedule and either strategy; in a period whose payment is below
\* the interest due the scheduled principal is 0, and the balance is then that
\* of the period before less the prepayment applied.
C26_BalanceNeverGrows ==
    pc \in {"main", "idle"} =>
        /\ \A i \in 1..Len(ThisCallRows) :
              /\ ThisCallRows[i].balance # NaN
              /\ ThisCallRows[i].balance >= 0
              /\ NLe(ThisCallRows[i].balance,
                     IF i = 1 THEN Emit(ver, cfg.principal) ELSE ThisCallRows[i - 1].balance)
        /\ loc.month >= 1 =>
              /\ NLe(0, loc.last.balance)
              /\ NLe(loc.last.balance, loc.last.balanceBefore)
              /\ NLt(loc.last.emiBefore, loc.last.interest) =>
                    /\ loc.last.scheduled = 0
                    /\ loc.last.balance =
                           NSub(loc.last.balanceBefore,
                                IF loc.last.applied THEN loc.last.prepayment ELSE 0)

\* C27: after every period of calculate() the principal portions paid so far
\* and the outstanding balance add up to the initial principal; the principal
\* portion of the period is its scheduled principal plus the prepayment applied;
\* on return totalPrincipal is the principal less the balance left, within 0.01
\* of the principal when the loan is paid off, and totalPayment is
\* totalPrincipal + totalInterest (to the cent in v2, whose values are rounded).
C27_PrincipalConserved ==
    (pc = "main" \/ (pc = "idle" /\ result.kind = "ok")) =>
        /\ NAdd(loc.totalPrincipalPaid, Outstanding) = cfg.principal
        /\ loc.month >= 1 =>
              loc.last.principal =
                  NAdd(loc.last.scheduled, IF loc.last.applied THEN loc.last.prepayment ELSE 0)
        /\ (pc = "idle" /\ result.kind = "ok") =>
              /\ result.totalPrincipal = Emit(ver, NSub(cfg.principal, Outstanding))
              /\ loc.balance = 0 => Near(result.totalPrincipal, cfg.principal, Epsilon)
              /\ Near(result.totalPayment,
                      NAdd(result.totalPrincipal, result.totalInterest),
                      IF ver = "v2" THEN Epsilon ELSE 0)

----------------------------------------------------------------------------
(* validate() on rate schedules *)

\* the pairs i < j of a schedule in which period i ends explicitly and period j
\* starts at or before that end
ExplicitOverlaps(s) ==
    {<<i, j>> \in (1..Len(s)) \X (1..Len(s)) :
        i < j /\ s[i].endMonth # Null /\ s[j].startMonth <= s[i].endMonth}

\* the overlap errors among the errors validate() returned
OverlapReports(errors) ==
    {k \in 1..Len(errors) : errors[k][1] = "Rate periods have explicit overlap at month"}

\* C21: validate() reports a rate-overlap error exactly when, in the start-sorted
\* schedule, some period with a non-null endMonth has a later-listed period,
\* adjacent or not, whose startMonth <= that endMonth; overlaps of open-ended
\* periods alone give no overlap error.
C21_OverlapReportedExactly ==
    query.kind = "validate" =>
        (OverlapReports(query.errors) # {} <=> ExplicitOverlaps(cfg.interestRateSchedule) # {})

\* a schedule of three periods whose only explicit overlap is between the first
\* and the third, reported by validate()
C21_Witness ==
    /\ query.kind = "validate"
    /\ Len(cfg.interestRateSchedule) = 3
    /\ <<1, 3>> \in ExplicitOverlaps(cfg.interestRateSchedule)
    /\ <<2, 3>> \notin ExplicitOverlaps(cfg.interestRateSchedule)
    /\ OverlapReports(query.errors) # {}

----------------------------------------------------------------------------
(* breakEvenAnalysis and compareStrategies (v2) *)

\* the loop of _cloneConfig: addRatePeriod for every period from index k on
RECURSIVE CopyPeriods(_, _, _)
CopyPeriods(s, k, copy) ==
    IF k > Len(s) THEN copy
    ELSE CopyPeriods(s, k + 1,
                     AddRatePeriodTo(copy, s[k].startMonth, s[k].rate, s[k].endMonth))

\* a clone that is the calculator's own configuration object
CloneConfigShared(c) == [fresh |-> FALSE, config |-> c]

\* a clone that carries the prepayment lists over
CloneConfigWithPlan(c) ==
    [fresh  |-> TRUE,
     config |-> [c EXCEPT !.interestRateSchedule = CopyPeriods(c.interestRateSchedule, 1, <<>>)]]

\* _cloneConfig(): a new LoanConfiguration object (fresh) holding principal, tenure,
\* default strategy and a rebuilt rate schedule, its prepayment lists empty
CloneConfig(c) ==
    [fresh  |-> TRUE,
     config |-> [NewConfig EXCEPT
                    !.principal = c.principal,
                    !.baseTenureMonths = c.baseTenureMonths,
                    !.defaultStrategy = c.defaultStrategy,
                    !.interestRateSchedule = CopyPeriods(c.interestRateSchedule, 1, <<>>)]]

\* configXX.defaultStrategy = strategy; configXX.addOneTimePrepayment(amount, month, strategy)
WithStrategy(obj, amount, month, strategy) ==
    [obj EXCEPT !.config.defaultStrategy = strategy,
                !.config.oneTime = Append(@, OneTimePrepayment(amount, month, strategy))]

\* configWith.addOneTimePrepayment(prepaymentAmount, prepaymentMonth)
WithPrepayment(obj, amount, month) ==
    [obj EXCEPT !.config.oneTime = Append(@, OneTimePrepayment(amount, month, "null"))]

\* this.config after a write to the object obj: the write is seen through
\* this.config only if obj is that very object
SeenThrough(this, obj) == IF obj.fresh THEN this ELSE obj.config

\* the baseline loop of a calculator run to its exit
RECURSIVE OriginalRun(_, _)
OriginalRun(c, l) ==
    IF l.oBalance > Epsilon /\ l.oMonth < OriginalMaxMonths(c)
    THEN OriginalRun(c, CHOOSE n \in {OriginalStepLoc(l, b) :
                                         b \in {OriginalBody(c, l.originalEMI, l.oBalance,
                                                             l.oMonth + 1)}} : TRUE)
    ELSE l

\* the calculator after one iteration of the main loop; st = [loc, emi, ledger]
MainRunStep(v, st, b) ==
    [loc    |-> MainStepLoc(st.loc, b, st.emi),
     emi    |-> b.emi,
     ledger |-> Append(st.ledger, LedgerRow(v, st.loc.month + 1, b))]

\* the main loop of a calculator run to its exit
RECURSIVE MainRun(_, _, _)
MainRun(v, c, st) ==
    IF NGt(st.loc.balance, Epsilon) /\ st.loc.month < MaxMonths(c)
    THEN MainRun(v, c, CHOOSE n \in {MainRunStep(v, st, b) :
                                        b \in {MainBody(v, c, st.emi, st.loc.balance,
                                                        st.loc.month + 1)}} : TRUE)
    ELSE st

\* what calculate() returns from the exit state of the main loop
ResultOfRun(v, st) == CalculateResult(v, st.loc, st.ledger, st.emi)

\* new AdvancedLoanCalculator(c).calculate(): the result, or the validation error
CalculateOn(v, c) ==
    IF Validate(c) # <<>> THEN ThrownByCalculate(Validate(c))
    ELSE ResultOfRun(v,
             MainRun(v, c,
                 [loc    |-> OriginalRun(c, StartLoc(c, CalculateInitialEMI(c))),
                  emi    |-> CalculateInitialEMI(c),
                  ledger |-> <<>>]))

\* the four fields compareStrategies reports of one result
StrategySummary(r) ==
    [months |-> r.months, totalInterest |-> r.totalInterest,
     totalPayment |-> r.totalPayment, finalEMI |-> r.finalEMI]

\* the object compareStrategies returns for the two results
ComparisonOf(resultRT, resultRE) ==
    IF resultRT.kind = "error" THEN resultRT
    ELSE IF resultRE.kind = "error" THEN resultRE
    ELSE [kind               |-> "ok",
          reduceTenure       |-> StrategySummary(resultRT),
          reduceEMI          |-> StrategySummary(resultRE),
          interestDifference |-> RoundCurrency(resultRE.totalInterest - resultRT.totalInterest),
          tenureDifference   |-> resultRE.months - resultRT.months,
          recommendation     |-> IF resultRT.totalInterest <= resultRE.totalInterest
                                 THEN "REDUCE_TENURE" ELSE "REDUCE_EMI"]

\* compareStrategies(amount, month) on a calculator whose this.config is `this`:
\* the value returned, this.config afterwards, and whether both clones were fresh
CompareStrategiesFrom(this, configRT, amount, month) ==
    [answer |-> ComparisonOf(
                    CalculateOn("v2", configRT.config),
                    CalculateOn("v2", WithStrategy(CloneConfig(SeenThrough(this, configRT)),
                                                   amount, month, "REDUCE_EMI").config)),
     config |-> SeenThrough(SeenThrough(this, configRT),
                            WithStrategy(CloneConfig(SeenThrough(this, configRT)),
                                         amount, month, "REDUCE_EMI")),
     fresh  |-> configRT.fresh /\ CloneConfig(SeenThrough(this, configRT)).fresh]

CompareStrategies(this, amount, month) ==
    CompareStrategiesFrom(this, WithStrategy(CloneConfig(this), amount, month, "REDUCE_TENURE"),
                          amount, month)

\* (1 + r)^n for an integer n of either sign
PowSigned(r, n) == IF n >= 0 THEN Pow1p(r, n) ELSE MulDiv(FScale, FScale, Pow1p(r, 0 - n))

\* the months m of the break-even loop at which savedSoFar >= invVal
BreakEvenMonths(amount, mr, interestSaved, remainingMonths) ==
    {m \in 1..remainingMonths :
        MulDiv(interestSaved, m, remainingMonths) >=
            (IF mr = 0 THEN 0 ELSE MulDiv(amount, Pow1p(mr, m) - FScale, FScale))}

\* the least member of a non-empty set of months
Earliest(S) == CHOOSE m \in S : \A k \in S : m <= k

\* the object breakEvenAnalysis returns for the two results
BreakEvenOf(amount, month, mr, interestSaved, remainingMonths, investmentValue) ==
    [kind            |-> "ok",
     breakEvenMonth  |-> IF interestSaved > 0
                            /\ BreakEvenMonths(amount, mr, interestSaved, remainingMonths) # {}
                         THEN month + Earliest(BreakEvenMonths(amount, mr, interestSaved,
                                                               remainingMonths))
                         ELSE Null,
     interestSaved   |-> interestSaved,
     investmentValue |-> investmentValue,
     investmentGain  |-> RoundCurrency(investmentValue - amount),
     recommendation  |-> IF interestSaved >= RoundCurrency(investmentValue - amount)
                         THEN "prepay" ELSE "invest"]

BreakEvenAnswer(resultWith, resultWithout, amount, month, mr) ==
    IF resultWith.kind = "error" THEN resultWith
    ELSE IF resultWithout.kind = "error" THEN resultWithout
    ELSE BreakEvenOf(amount, month, mr,
             RoundCurrency(resultWithout.totalInterest - resultWith.totalInterest),
             resultWithout.months - month,
             IF mr = 0 THEN amount
             ELSE RoundCurrency(MulDiv(amount, PowSigned(mr, resultWithout.months - month),
                                       FScale)))

\* breakEvenAnalysis past its argument checks, configWith being the first clone
BreakEvenFrom(this, configWith, amount, month, rate) ==
    [answer |-> BreakEvenAnswer(
                    CalculateOn("v2", configWith.config),
                    CalculateOn("v2", CloneConfig(SeenThrough(this, configWith)).config),
                    amount, month, MonthlyRate(rate)),
     config |-> SeenThrough(this, configWith),
     fresh  |-> configWith.fresh /\ CloneConfig(SeenThrough(this, configWith)).fresh]

\* breakEvenAnalysis(amount, month, rate) on a calculator whose this.config is `this`
BreakEvenAnalysis(this, amount, month, rate) ==
    IF amount <= 0
    THEN [answer |-> Thrown(<<<<"Prepayment amount must be positive", 0>>>>),
          config |-> this, fresh |-> TRUE]
    ELSE IF rate < 0
    THEN [answer |-> Thrown(<<<<"Alternate return rate cannot be negative", 0>>>>),
          config |-> this, fresh |-> TRUE]
    ELSE BreakEvenFrom(this, WithPrepayment(CloneConfig(this), amount, month),
                       amount, month, rate)

WhatIfAmounts == {0, 100 * Scale}
WhatIfMonths  == {1, 2}
WhatIfRates   == {-1, 0, 1200}

\* the configurations analysed: a positive principal over 2 months, or over 0
\* months (invalid)
WhatIfConfigs ==
    {c \in Configs : c.principal > 0 /\ c.baseTenureMonths \in {0, 2}}

\* new AdvancedLoanCalculator(config), v2, for a configuration drawn from WhatIfConfigs
InitWhatIf ==
    /\ ver = "v2"
    /\ cfg \in WhatIfConfigs
    /\ amortizationSchedule = <<>>
    /\ currentEMI = 0
    /\ pc = "idle"
    /\ loc = IdleLoc
    /\ result = NoResult
    /\ calls = 0
    /\ query = NoResult
    /\ goal = GoalIdle
    /\ OthersUnused

\* calculator.compareStrategies(amount, month)
CompareCall ==
    /\ pc = "idle"
    /\ \E amount \in WhatIfAmounts, month \in WhatIfMonths :
         \E out \in {CompareStrategies(cfg, amount, month)} :
            /\ query' = [kind |-> "compare", amount |-> amount, month |-> month,
                         rate |-> 0, answer |-> out.answer, fresh |-> out.fresh]
            /\ cfg' = out.config
    /\ UNCHANGED <<ver, amortizationSchedule, currentEMI, pc, loc, result, calls, goal,
                   sipCalc, withdrawal, tenure>>

\* calculator.breakEvenAnalysis(amount, month, rate)
BreakEvenCall ==
    /\ pc = "idle"
    /\ \E amount \in WhatIfAmounts, month \in WhatIfMonths, rate \in WhatIfRates :
         \E out \in {BreakEvenAnalysis(cfg, amount, month, rate)} :
            /\ query' = [kind |-> "breakEven", amount |-> amount, month |-> month,
                         rate |-> rate, answer |-> out.answer, fresh |-> out.fresh]
            /\ cfg' = out.config
    /\ UNCHANGED <<ver, amortizationSchedule, currentEMI, pc, loc, result, calls, goal,
                   sipCalc, withdrawal, tenure>>

NextWhatIf ==
    \/ CalculateThrow
    \/ CalculateBegin
    \/ OriginalStep
    \/ OriginalDone
    \/ MainStep
    \/ CalculateReturn
    \/ CompareCall
    \/ BreakEvenCall

SpecWhatIf == InitWhatIf /\ [][NextWhatIf]_vars

\* a step that ends with the answer of an analysis in query is a call of that
\* analysis: every other operation of the calculator clears query or leaves it clear
\*
\* C22: breakEvenAnalysis and compareStrategies leave the calculator they are
\* called on unchanged (its configuration with the rate schedule and the three
\* prepayment lists, its ledger and its currentEMI), and each of their two
\* simulations runs on a freshly cloned configuration.
C22_WhatIfLeavesCalculator ==
    [][query'.kind \in {"compare", "breakEven"} =>
          /\ cfg' = cfg
          /\ amortizationSchedule' = amortizationSchedule
          /\ currentEMI' = currentEMI
          /\ query'.fresh]_vars

\* a comparison answered on a calculator that has a ledger, a payment and a
\* prepayment plan of its own
C22_Witness ==
    /\ query.kind = "compare" /\ query.answer.kind = "ok"
    /\ HasPrepayment(cfg)
    /\ amortizationSchedule # <<>>
    /\ currentEMI > 0

\* the configuration with the same principal, tenure, default strategy and rate
\* schedule as c and no prepayment entry
WithoutPlan(c) == [c EXCEPT !.monthly = <<>>, !.yearly = <<>>, !.oneTime = <<>>]

\* C28: compareStrategies(a, m) and breakEvenAnalysis(a, m, r) ignore the
\* configuration's own prepayment plan: configurations that differ only in their
\* monthly / yearly / one-time entries get identical results. Every configuration
\* is compared with the one of no entries, so any two of them agree.
C28_WhatIfIgnoresOwnPlan ==
    /\ query.kind = "compare" =>
         query.answer = CompareStrategies(WithoutPlan(cfg), query.amount, query.month).answer
    /\ query.kind = "breakEven" =>
         query.answer = BreakEvenAnalysis(WithoutPlan(cfg), query.amount, query.month,
                                          query.rate).answer

\* a break-even analysis that found interest saved, on a calculator whose
\* configuration has prepayment entries of its own
C28_Witness ==
    /\ query.kind = "breakEven" /\ query.answer.kind = "ok"
    /\ query.answer.interestSaved > 0
    /\ HasPrepayment(cfg)

----------------------------------------------------------------------------
(* The SIP contribution over the periods *)

\* the positions of the step-up entries whose [startYear, endYear] contains year
StepUpsCovering(schedules, year) ==
    {k \in 1..Len(schedules) :
        /\ schedules[k].startYear <= year
        /\ (schedules[k].endYear = Null \/ year <= schedules[k].endYear)}

\* the first of a non-empty set of positions
First(S) == CHOOSE k \in S : \A j \in S : k <= j

\* the contribution promised for period p, given the contribution of period p - 1
PromisedSIP(schedules, before, p) ==
    IF p > 1 /\ (p - 1) % 12 = 0 /\ StepUpsCovering(schedules, (p + 11) \div 12) # {}
    THEN MulDiv(before,
                100 + schedules[First(StepUpsCovering(schedules, (p + 11) \div 12))].stepUpPercent,
                100)
    ELSE before

\* C23: in AdvancedSIPCalculator.calculate() the contribution changes only at
\* periods p > 1 with (p - 1) mod 12 = 0, where it is multiplied once by
\* (1 + stepUpPercent / 100) of the first schedule entry, in list order, whose
\* [startYear, endYear] contains ceil(p / 12); it is unchanged if no entry matches
\* and constant across the 12 periods of a year.
C23_StepUpFirstMatch ==
    [][(sipCalc.pc = "loop" /\ sipCalc'.pc = "loop") =>
          /\ sipCalc'.month = sipCalc.month + 1
          /\ sipCalc'.currentSIP =
                 PromisedSIP(sipCalc.config.stepUpSchedules, sipCalc.currentSIP,
                             sipCalc'.month)]_vars

\* period 13 with two entries covering year 2: the first one's 10% was applied
C23_Witness ==
    /\ sipCalc.pc = "loop" /\ sipCalc.month = 13
    /\ Cardinality(StepUpsCovering(sipCalc.config.stepUpSchedules, 2)) = 2
    /\ sipCalc.currentSIP = MulDiv(sipCalc.config.monthlyAmount, 110, 100)

----------------------------------------------------------------------------
(* Depletion in WithdrawalCalculator.calculate() *)

\* a step of the loop of calculate() into the next period
WithdrawalPeriod ==
    /\ withdrawal.pc = "loop" /\ withdrawal'.pc = "loop"
    /\ withdrawal'.month = withdrawal.month + 1

\* C24: at the first period in which balance < current withdrawal the simulation
\* sets depletedAt to that period and stops without paying anything for it
\* (totalWithdrawn, balance and the schedule are as before); the balance is never
\* negative, and totalWithdrawn grows by full withdrawals only.
C24_ShortfallIsNotPaid ==
    /\ [](withdrawal.pc # "off" => withdrawal.balance >= 0)
    /\ [][/\ WithdrawalPeriod =>
               /\ withdrawal.depletedAt = Null
               /\ IF withdrawal.balance < withdrawal'.currentWithdrawal
                  THEN /\ withdrawal'.depletedAt = withdrawal'.month
                       /\ withdrawal'.balance = withdrawal.balance
                       /\ withdrawal'.totalWithdrawn = withdrawal.totalWithdrawn
                       /\ withdrawal'.schedule = withdrawal.schedule
                  ELSE withdrawal'.totalWithdrawn =
                           withdrawal.totalWithdrawn + withdrawal'.currentWithdrawal
          /\ (withdrawal.pc = "loop" /\ withdrawal.depletedAt # Null) =>
                 withdrawal'.month = withdrawal.month]_vars

\* a run stopped by a shortfall after at least one full withdrawal, with money left
C24_Witness ==
    /\ withdrawal.pc = "loop"
    /\ withdrawal.depletedAt = withdrawal.month
    /\ withdrawal.balance > 0
    /\ withdrawal.balance < withdrawal.currentWithdrawal
    /\ withdrawal.totalWithdrawn > 0

\* the sum of the twelve withdrawals of year y and of every later year of the
\* plan, the withdrawal of year y - 1 being current
RECURSIVE ScheduledFrom(_, _, _)
ScheduledFrom(plan, y, current) ==
    IF y > plan.years THEN 0
    ELSE 12 * AdjustWithdrawal(plan, 12 * (y - 1) + 1, current)
         + ScheduledFrom(plan, y + 1, AdjustWithdrawal(plan, 12 * (y - 1) + 1, current))

\* every scheduled withdrawal of the call that returned was paid in full
AllPaidInFull ==
    withdrawal.answer.totalWithdrawn =
        ScheduledFrom(withdrawal.plan, 1, withdrawal.plan.monthlyWithdrawal)

\* C29: calculate() reports lastsThroughPlan = true (depletedAt = null) exactly when
\* every one of the years x 12 scheduled withdrawals was paid in full, including
\* when a full withdrawal leaves a balance of exactly 0.
C29_LastsIffAllPaid ==
    (withdrawal.pc = "idle" /\ withdrawal.answer.kind = "ok") =>
        /\ withdrawal.answer.lastsThroughPlan = (withdrawal.answer.depletedAt = Null)
        /\ withdrawal.answer.lastsThroughPlan = AllPaidInFull

----------------------------------------------------------------------------
(* The two loan engines side by side *)

OtherVersion(v) == IF v = "v1" THEN "v2" ELSE "v1"

\* what the claim compares of a result: the number of periods and, per row, the
\* balance, the payment, the prepayment and the strategy, rounded to the cent
ComparedView(r) ==
    [months |-> r.months,
     rows   |-> [i \in 1..Len(r.amortizationSchedule) |->
                    [balance    |-> RoundCurrency(r.amortizationSchedule[i].balance),
                     emi        |-> RoundCurrency(r.amortizationSchedule[i].emi),
                     prepayment |-> RoundCurrency(r.amortizationSchedule[i].prepayment),
                     strategy   |-> r.amortizationSchedule[i].strategy]]]

\* C30: on a first call, for every valid configuration, calculate() of v1 and
\* calculate() of v2 return the same months and, period by period, the same
\* balance, emi, prepayment and strategy once the v1 values are rounded to cents.
C30_EnginesAgree ==
    (pc = "idle" /\ calls = 1 /\ result.kind = "ok") =>
        ComparedView(result) = ComparedView(CalculateOn(OtherVersion(ver), cfg))
====
